---- MODULE Spec2Model ----
(***************************************************************************)
(* A model of the distributed key-value store: the sharded LWW storage     *)
(* engine, the consistent hash ring and the quorum coordinator with        *)
(* hinted handoff and read repair.                                         *)
(***************************************************************************)
EXTENDS Integers, Sequences, FiniteSets, TLC

(***************************************************************************)
(* Bounds of the model.                                                    *)
(***************************************************************************)
\* Largest timestamp_ms a storage-engine call is given.
MaxTs == 2
\* Largest node_id a storage-engine call is given.
MaxNodeId == 2

StoreKeys == {"k1", "k2"}
Values == {"a", "b"}
TsRange == 0..MaxTs
NodeIdRange == 1..MaxNodeId

(***************************************************************************)
(* storage_engine.h: Version, is_newer, ValueEntry, GetResult.             *)
(***************************************************************************)
Version(ts, id) == [timestamp_ms |-> ts, node_id |-> id]

ZeroVersion == Version(0, 0)

\* Any other version replaces the stored one.
is_newer_or_older(a, b) == a # b

is_newer(a, b) ==
    IF a.timestamp_ms # b.timestamp_ms
    THEN a.timestamp_ms > b.timestamp_ms
    ELSE a.node_id > b.node_id

\* A slot of a shard's map: present = FALSE stands for "find(key) == end()".
ValueEntry(tomb, value, version) ==
    [present |-> TRUE, is_tombstone |-> tomb, value |-> value, version |-> version]

Absent ==
    [present |-> FALSE, is_tombstone |-> FALSE, value |-> "", version |-> ZeroVersion]

GetResult(found, value, version) ==
    [found |-> found, value |-> value, version |-> version]

(***************************************************************************)
(* storage_engine.cpp.  data is the union of the shards' maps: a key lives *)
(* in exactly one shard and every operation holds that shard's lock, so an *)
(* operation on a key is atomic.                                           *)
(***************************************************************************)
\* get that answers with whatever entry the map holds.
StorageEngine_get_any_entry(data, key) ==
    IF ~data[key].present
    THEN GetResult(FALSE, "", ZeroVersion)
    ELSE GetResult(TRUE, data[key].value, data[key].version)

StorageEngine_get(data, key) ==
    IF ~data[key].present \/ data[key].is_tombstone
    THEN GetResult(FALSE, "", ZeroVersion)
    ELSE GetResult(TRUE, data[key].value, data[key].version)

\* set without the LWW guard.
StorageEngine_set_unguarded(data, key, value, version) ==
    [ok |-> TRUE, data |-> [data EXCEPT ![key] = ValueEntry(FALSE, value, version)]]

StorageEngine_set(data, key, value, version) ==
    IF data[key].present /\ ~is_newer(version, data[key].version)
    THEN [ok |-> FALSE, data |-> data]
    ELSE [ok |-> TRUE, data |-> [data EXCEPT ![key] = ValueEntry(FALSE, value, version)]]

\* del that also takes a version equal to the stored one.
StorageEngine_del_equal_wins(data, key, version) ==
    IF data[key].present /\ is_newer(data[key].version, version)
    THEN [ok |-> FALSE, data |-> data]
    ELSE [ok |-> TRUE, data |-> [data EXCEPT ![key] = ValueEntry(TRUE, "", version)]]

StorageEngine_del(data, key, version) ==
    IF data[key].present /\ ~is_newer(version, data[key].version)
    THEN [ok |-> FALSE, data |-> data]
    ELSE [ok |-> TRUE, data |-> [data EXCEPT ![key] = ValueEntry(TRUE, "", version)]]

\* all_entries(): every entry, tombstones included.
StorageEngine_all_entries(data) ==
    {<<k, data[k]>> : k \in {x \in DOMAIN data : data[x].present}}

(***************************************************************************)
(* The order the claims speak of, stated on its own: (timestamp_ms, then   *)
(* node_id), lexicographic.                                                *)
(***************************************************************************)
VersionLeq(a, b) ==
    \/ a.timestamp_ms < b.timestamp_ms
    \/ a.timestamp_ms = b.timestamp_ms /\ a.node_id <= b.node_id

VersionMax(a, b) == IF VersionLeq(a, b) THEN b ELSE a

(***************************************************************************)
(* protocol.cpp: the response formatters and the versioned-response        *)
(* parser.  A wire line is kept as the sequence of its space-separated     *)
(* fields, without the closing newline; a length-prefixed byte string is   *)
(* two fields, the count and the bytes.                                    *)
(***************************************************************************)
format_ok == <<"+OK">>

format_value(value) == <<"$", Len(value), value>>

format_error(message) == <<"-ERR", message>>

format_not_found == <<"-NOT_FOUND">>

format_pong == <<"+PONG">>

format_versioned_value(value, timestamp_ms, node_id) ==
    <<"$V", Len(value), value, timestamp_ms, node_id>>

VersionedGetResult(found, value, timestamp_ms, node_id) ==
    [found |-> found, value |-> value, timestamp_ms |-> timestamp_ms, node_id |-> node_id]

parse_versioned_response(resp) ==
    IF resp = format_not_found THEN VersionedGetResult(FALSE, "", 0, 0)
    ELSE IF Len(resp) < 2 \/ resp[1] # "$V" THEN VersionedGetResult(FALSE, "", 0, 0)
    ELSE IF Len(resp) < 3 \/ Len(resp[3]) # resp[2] THEN VersionedGetResult(FALSE, "", 0, 0)
    ELSE IF Len(resp) # 5 THEN VersionedGetResult(FALSE, resp[3], 0, 0)
    ELSE VersionedGetResult(TRUE, resp[3], resp[4], resp[5])

(***************************************************************************)
(* hash_ring.cpp.  murmurhash3 is a fixed function onto ring positions;    *)
(* the model keeps RingSize positions and a fixed table for the vnode keys *)
(* "<node_id>:<i>".  The client key has a fixed position too.               *)
(***************************************************************************)
\* Number of ring positions of the model (2^64 in the code).
RingSize == 8
\* Virtual nodes per physical node (128 by default in the code).
NumVnodes == 2

Nodes == {1, 2, 3}

AddressOf == [n \in Nodes |->
    CASE n = 1 -> "10.0.0.1:7001" [] n = 2 -> "10.0.0.2:7001" [] OTHER -> "10.0.0.3:7001"]

\* The node listening on an address.
NodeAt(address) == CHOOSE n \in Nodes : AddressOf[n] = address

NodeInfo(node_id, address) == [node_id |-> node_id, address |-> address]

murmurhash3_vnode(node_id, i) == (7 * node_id + 3 * i) % RingSize

\* A HashRing: ring_ maps positions to NodeInfo, nodes_ maps node_id to address.
EmptyRing == [ring_ |-> <<>>, nodes_ |-> <<>>]

MapPut(f, k, v) == [x \in DOMAIN f \cup {k} |-> IF x = k THEN v ELSE f[x]]

SetMin(S) == CHOOSE x \in S : \A y \in S : x <= y

RECURSIVE add_vnodes(_, _, _, _)
add_vnodes(points, info, i, num_vnodes) ==
    IF i >= num_vnodes THEN points
    ELSE LET hash == murmurhash3_vnode(info.node_id, i) IN
         IF hash \in DOMAIN points
         THEN add_vnodes(points, info, i + 1, num_vnodes)
         ELSE add_vnodes(MapPut(points, hash, info), info, i + 1, num_vnodes)

add_node(r, node_id, address, num_vnodes) ==
    [ring_ |-> add_vnodes(r.ring_, NodeInfo(node_id, address), 0, num_vnodes),
     nodes_ |-> MapPut(r.nodes_, node_id, address)]

\* ring_.lower_bound in place of upper_bound: a point at the hash itself is taken.
upper_bound_wrap_inclusive(points, hash) ==
    LET above == {p \in DOMAIN points : p >= hash} IN
    IF above = {} THEN SetMin(DOMAIN points) ELSE SetMin(above)

\* ring_.upper_bound(hash), wrapping to ring_.begin(); also "++it" with wrap.
upper_bound_wrap(points, hash) ==
    LET above == {p \in DOMAIN points : p > hash} IN
    IF above = {} THEN SetMin(DOMAIN points) ELSE SetMin(above)

RECURSIVE replica_walk(_, _, _, _, _)
replica_walk(points, it, result, visited, count) ==
    IF Len(result) >= count THEN result
    ELSE LET already_have ==
                 \E j \in 1..Len(result) : result[j].node_id = points[it].node_id
             result2 == IF already_have THEN result ELSE Append(result, points[it])
         IN  IF visited + 1 >= Cardinality(DOMAIN points) THEN result2
             ELSE replica_walk(points, upper_bound_wrap(points, it), result2,
                               visited + 1, count)

\* get_replica_nodes with the walk stopped one node early.
get_replica_nodes_short(r, hash, count) ==
    IF DOMAIN r.ring_ = {} THEN <<>>
    ELSE LET max_nodes == Cardinality(DOMAIN r.nodes_)
             cnt == IF count > max_nodes THEN max_nodes ELSE count
         IN  replica_walk(r.ring_, upper_bound_wrap(r.ring_, hash), <<>>, 0, cnt - 1)

\* get_replica_nodes with each node found put in front of the ones before.
get_replica_nodes_reversed(r, hash, count) ==
    LET walked == get_replica_nodes_short(r, hash, count + 1)
    IN  [i \in 1..Len(walked) |-> walked[Len(walked) + 1 - i]]

get_replica_nodes(r, hash, count) ==
    IF DOMAIN r.ring_ = {} THEN <<>>
    ELSE LET max_nodes == Cardinality(DOMAIN r.nodes_)
             cnt == IF count > max_nodes THEN max_nodes ELSE count
         IN  replica_walk(r.ring_, upper_bound_wrap(r.ring_, hash), <<>>, 0, cnt)

\* The ring main() builds from a cluster configuration listing `members`.
RECURSIVE build_ring(_, _)
build_ring(r, members) ==
    IF members = {} THEN r
    ELSE LET n == SetMin(members) IN
         build_ring(add_node(r, n, AddressOf[n], NumVnodes), members \ {n})

(***************************************************************************)
(* State.                                                                  *)
(***************************************************************************)
VARIABLES
    \* the storage-engine specification
    engine,      \* StorageEngine: key -> slot
    max_called,  \* history: key -> [any, version], the maximum version of the calls so far
    last_call,   \* history: the last set/del call and what it returned
    \* the cluster: start-up configuration
    ring,        \* HashRing [ring_, nodes_], immutable after start-up
    key_hash,    \* murmurhash3(key) of the client key
    quorum,      \* [replication_factor, write_quorum, read_quorum]
    \* the cluster: one process per node
    clock,       \* node -> the last now_ms() the node has read
    store,       \* node -> StorageEngine data
    wal,         \* node -> WAL [records, next_seq_no_]
    ops_since_snapshot,  \* node -> Coordinator::ops_since_snapshot_
    snapshots,   \* node -> the snapshots saved, oldest first
    hints,       \* node -> HintStore::hints_ of its coordinator: target node_id -> hints
    \* the cluster: calls in progress and finished
    writes,      \* quorum_write calls, in the order they were issued
    reads,       \* quorum_read calls
    repairs,     \* read_repair_async threads
    replays,     \* replay_hints_for calls
    \* the cluster: history
    delivered,   \* <<node, payload>>: the RSET/RDEL payloads each node has executed
    hint_log,    \* every hint ever given to HintStore::store, with the storing node
    hint_acked,  \* the hints a replay has sent and seen acknowledged with +OK
    \* the log file of one node across process lifetimes
    wal_file,      \* the bytes of <dir>/wal.bin
    wal_synced,    \* how many of them are on stable storage
    wal_object,    \* the WAL object of the running process [open, next_seq_no_, lifetime]
    wal_recovered, \* what recover() returned when the process started
    wal_appends,   \* history: every append that returned, with the record as written
    wal_damage,    \* history: the crashes so far and the damage done to the file
    \* one node with its worker threads, and its next start
    node,          \* [data, wal, ops, snaps]: engine_, *wal_, ops_since_snapshot_, the snapshot files
    workers,       \* thread -> [pc, cmd, seq]: where it is in handle_command
    snapshot_interval_,  \* Coordinator::snapshot_interval_
    logged,        \* history: the command behind each record of the log
    booted,         \* the engine main has built at the next start
    \* the wire: a sender's bytes and the reader that parses them
    wire_sent,     \* what the sender put on the wire (a command, a versioned value, frames)
    wire_bytes,    \* the bytes sent and not yet read
    read_buf,      \* Connection::read_buf of the reader
    wire_parsed,   \* the results the reader got, oldest first
    \* FWD frames handed to a coordinator
    forwards,      \* handle_command calls on FWD commands, with their responses
    \* one snapshot file
    snap_saved,    \* what Snapshot::save was called with: [seq_no, entries]
    snap_file,     \* the bytes of the file
    snap_loaded,   \* what Snapshot::load returned
    \* the hint directory of one coordinator across process lifetimes
    hint_dir,      \* target node_id -> the bytes of hints_<id>.dat
    hint_mem,      \* HintStore::hints_ of the running process
    hint_history,  \* history: target node_id -> the hints stored since the last clear
    hint_reloaded, \* whether the running process has called load()
    \* calls on the hash ring
    ring_call,     \* the last get_replica_nodes call and what it returned
    \* the connection pool
    pools_,        \* ConnectionPool::pools_: address -> idle fds
    pool_held,     \* the connections callers hold
    pool_fds,      \* the sockets that are open
    pool_call,     \* the last call on the pool and what it did
    \* the log with batched fsync
    wal_batch,     \* [fsync_batch_ops_, ops_since_sync_, dirty_, appended, unsynced]
    \* the thread pool
    tasks_,        \* ThreadPool::tasks_, the queue of submitted tasks
    stopped_,      \* ThreadPool::stopped_
    pool_threads,  \* worker thread -> [pc, task]: where it is in its loop
    pool_history,  \* history: [submits, runs, shutdown] of the pool
    \* one client connection of the server and the responses on their way to it
    response_queue_,  \* TcpServer::response_queue_
    write_buf,     \* Connection::write_buf of the connection
    \* concurrent calls on the hint store
    hint_calls,    \* [threads, calls]: thread -> [pc, hint] of a store call in progress; the calls begun
    \* one request/response exchange of the coordinator with a peer
    exchange,      \* [pc, kind, conn, response, channel, calls, log]: the call in progress, the sockets, the calls so far
    \* the hints of one target, replayed to it until every send is acknowledged
    hint_resend    \* [pending, replay, next, all_ok, executed, again]

storeVars == <<engine, max_called, last_call>>

configVars == <<ring, key_hash, quorum>>

nodeVars == <<clock, store, wal, ops_since_snapshot, snapshots, hints>>

callVars == <<writes, reads, repairs, replays>>

historyVars == <<delivered, hint_log, hint_acked>>

clusterVars == <<configVars, nodeVars, callVars, historyVars>>

walFileVars == <<wal_file, wal_synced, wal_object, wal_recovered, wal_appends, wal_damage>>

nodeRunVars == <<node, workers, snapshot_interval_, logged, booted>>

diskVars == <<walFileVars, nodeRunVars>>

wireVars == <<wire_sent, wire_bytes, read_buf, wire_parsed>>

snapFileVars == <<snap_saved, snap_file, snap_loaded>>

hintDirVars == <<hint_dir, hint_mem, hint_history, hint_reloaded>>

poolVars == <<pools_, pool_held, pool_fds, pool_call>>

extVars == <<wireVars, forwards, snapFileVars, hintDirVars, ring_call, poolVars, wal_batch>>

threadPoolVars == <<tasks_, stopped_, pool_threads, pool_history>>

responseVars == <<response_queue_, write_buf>>

lateVars == <<threadPoolVars, responseVars, hint_calls, exchange, hint_resend>>

vars == <<storeVars, clusterVars, diskVars, extVars, lateVars>>

(***************************************************************************)
(* The storage-engine specification: set and del called with any versions. *)
(***************************************************************************)
NoCall == [op |-> "none", key |-> "", value |-> "", version |-> ZeroVersion, ret |-> FALSE]

StoreInit ==
    /\ engine = [k \in StoreKeys |-> Absent]
    /\ max_called = [k \in StoreKeys |-> [any |-> FALSE, version |-> ZeroVersion]]
    /\ last_call = NoCall

\* The storage engine unused: the state of the cluster specifications.
StoreIdle ==
    /\ engine = [k \in StoreKeys |-> Absent]
    /\ max_called = [k \in StoreKeys |-> [any |-> FALSE, version |-> ZeroVersion]]
    /\ last_call = NoCall

\* The node with worker threads unused.
NodeIdle ==
    /\ node = <<>>
    /\ workers = <<>>
    /\ snapshot_interval_ = 0
    /\ logged = <<>>
    /\ booted = <<>>

\* The log file unused.
WalFileIdle ==
    /\ wal_file = <<>>
    /\ wal_synced = 0
    /\ wal_object = [open |-> FALSE, next_seq_no_ |-> 1, lifetime |-> 0]
    /\ wal_recovered = [done |-> FALSE, records |-> <<>>, fault |-> FALSE]
    /\ wal_appends = <<>>
    /\ wal_damage = [crashes |-> 0, stopped_by |-> "none", damage |-> [kind |-> "none", pos |-> 0]]

\* Neither of them used: the state of the specifications without a disk.
DiskIdle == WalFileIdle /\ NodeIdle

\* The wire unused.
WireIdle ==
    /\ wire_sent = <<>>
    /\ wire_bytes = <<>>
    /\ read_buf = <<>>
    /\ wire_parsed = <<>>

\* No FWD frame handled.
ForwardIdle == forwards = <<>>

\* No snapshot file written.
SnapFileIdle ==
    /\ snap_saved = <<>>
    /\ snap_file = <<>>
    /\ snap_loaded = <<>>

\* The hint directory unused.
HintDirIdle ==
    /\ hint_dir = <<>>
    /\ hint_mem = <<>>
    /\ hint_history = <<>>
    /\ hint_reloaded = FALSE

\* No call on the ring recorded.
RingCallIdle == ring_call = <<>>

\* The connection pool unused.
PoolIdle ==
    /\ pools_ = <<>>
    /\ pool_held = {}
    /\ pool_fds = {}
    /\ pool_call = <<>>

\* The batched log unused.
BatchIdle == wal_batch = <<>>

\* None of them used: the state of the specifications written so far.
\* The thread pool unused.
ThreadPoolIdle ==
    /\ tasks_ = <<>>
    /\ stopped_ = FALSE
    /\ pool_threads = <<>>
    /\ pool_history = <<>>

\* The response path of the server unused.
ResponseIdle ==
    /\ response_queue_ = <<>>
    /\ write_buf = <<>>

\* No concurrent hint-store call.
HintCallsIdle == hint_calls = <<>>

\* No exchange with a peer.
ExchangeIdle == exchange = <<>>

\* No replay of a hint batch.
ResendIdle == hint_resend = <<>>

LateIdle == ThreadPoolIdle /\ ResponseIdle /\ HintCallsIdle /\ ExchangeIdle /\ ResendIdle

ExtIdle ==
    /\ WireIdle /\ ForwardIdle /\ SnapFileIdle /\ HintDirIdle
    /\ RingCallIdle /\ PoolIdle /\ BatchIdle /\ LateIdle

\* The cluster unused: the state of the storage-engine specification.
ClusterIdle ==
    /\ ring = EmptyRing
    /\ key_hash = <<>>
    /\ quorum = [replication_factor |-> 1, write_quorum |-> 1, read_quorum |-> 1]
    /\ clock = [n \in Nodes |-> 0]
    /\ store = [n \in Nodes |-> <<>>]
    /\ wal = [n \in Nodes |-> <<>>]
    /\ ops_since_snapshot = [n \in Nodes |-> 0]
    /\ snapshots = [n \in Nodes |-> <<>>]
    /\ hints = [n \in Nodes |-> <<>>]
    /\ writes = <<>>
    /\ reads = <<>>
    /\ repairs = <<>>
    /\ replays = <<>>
    /\ delivered = {}
    /\ hint_log = {}
    /\ hint_acked = {}

NoteCall(key, version) ==
    max_called' = [max_called EXCEPT ![key] =
        [any |-> TRUE,
         version |-> IF max_called[key].any
                     THEN VersionMax(max_called[key].version, version)
                     ELSE version]]

\* engine.set(key, value, version)
EngineSet ==
    \E key \in StoreKeys, value \in Values, ts \in TsRange, id \in NodeIdRange :
        LET r == StorageEngine_set(engine, key, value, Version(ts, id)) IN
        /\ engine' = r.data
        /\ last_call' = [op |-> "set", key |-> key, value |-> value,
                         version |-> Version(ts, id), ret |-> r.ok]
        /\ NoteCall(key, Version(ts, id))
        /\ UNCHANGED <<clusterVars, diskVars, extVars, lateVars>>

\* engine.del(key, version)
EngineDel ==
    \E key \in StoreKeys, ts \in TsRange, id \in NodeIdRange :
        LET r == StorageEngine_del(engine, key, Version(ts, id)) IN
        /\ engine' = r.data
        /\ last_call' = [op |-> "del", key |-> key, value |-> "",
                         version |-> Version(ts, id), ret |-> r.ok]
        /\ NoteCall(key, Version(ts, id))
        /\ UNCHANGED <<clusterVars, diskVars, extVars, lateVars>>

StoreNext == EngineSet \/ EngineDel

StoreSpecInit == StoreInit /\ ClusterIdle /\ DiskIdle /\ ExtIdle

SpecStore == StoreSpecInit /\ [][StoreNext]_vars

(***************************************************************************)
(* Bounds and start-up choices of the cluster specifications.              *)
(***************************************************************************)
\* Largest now_ms() a node's clock reaches (clocks start at 1).
MaxClock == 2
\* Calls issued in one behaviour.
MaxWrites == 2
MaxReads == 1
MaxReplays == 1

ClusterKeys == {"k"}

\* The node that takes client commands and runs hint replays.
Coordinators == {1}

\* Cluster configurations: no node, this node alone, three nodes.
RingMemberships == {{}, {1}, {1, 2, 3}}

\* (N, W, R) with W + R > N, as main() requires; (1, 1, 1) is the
\* Coordinator constructor's default.
QuorumChoices ==
    {[replication_factor |-> 1, write_quorum |-> 1, read_quorum |-> 1],
     [replication_factor |-> 3, write_quorum |-> 2, read_quorum |-> 2]}

\* main() gives every coordinator a snapshot directory.
snapshot_dir_configured == TRUE

snapshot_interval == 100000

(***************************************************************************)
(* wal.cpp, snapshot.cpp, hint_store.cpp: what the coordinator calls.      *)
(***************************************************************************)
\* A WAL opened on an empty directory, and the null wal_ pointer of a
\* coordinator constructed without one.
EmptyWal == [open |-> TRUE, records |-> <<>>, next_seq_no_ |-> 1]

NoWal == [open |-> FALSE, records |-> <<>>, next_seq_no_ |-> 1]

WalRecord(timestamp_ms, op_type, key, value) ==
    [seq_no |-> 0, timestamp_ms |-> timestamp_ms, op_type |-> op_type,
     key |-> key, value |-> value]

WAL_append(w, record) ==
    [w EXCEPT !.records = Append(@, [record EXCEPT !.seq_no = w.next_seq_no_]),
              !.next_seq_no_ = @ + 1]

WAL_current_seq_no(w) == w.next_seq_no_ - 1

Snapshot_save(data, seq_no) ==
    [seq_no |-> seq_no, entries |-> StorageEngine_all_entries(data)]

Hint(target_address, target_node_id, key, value, is_del, version) ==
    [target_address |-> target_address, target_node_id |-> target_node_id,
     key |-> key, value |-> value, is_del |-> is_del, version |-> version]

HintStore_get_hints_for(h, target_node_id) ==
    IF target_node_id \in DOMAIN h THEN h[target_node_id] ELSE <<>>

\* A store that forgets the hint.
HintStore_store_dropped(h, hint) == h

HintStore_store(h, hint) ==
    MapPut(h, hint.target_node_id,
           Append(HintStore_get_hints_for(h, hint.target_node_id), hint))

HintStore_clear_hints_for(h, target_node_id) ==
    [t \in DOMAIN h \ {target_node_id} |-> h[t]]

(***************************************************************************)
(* coordinator.cpp: execute_local and maybe_snapshot on one node's state   *)
(* s = [data, wal, ops, snaps].                                            *)
(***************************************************************************)
Command(type, key, value, timestamp_ms, node_id) ==
    [type |-> type, key |-> key, value |-> value,
     timestamp_ms |-> timestamp_ms, node_id |-> node_id]

NodeState(n) ==
    [data |-> store[n], wal |-> wal[n], ops |-> ops_since_snapshot[n],
     snaps |-> snapshots[n]]

maybe_snapshot(s) ==
    IF ~s.wal.open \/ ~snapshot_dir_configured THEN s
    ELSE LET ops == s.ops + 1 IN
         IF ops >= snapshot_interval
         THEN [s EXCEPT !.ops = 0,
                        !.snaps = Append(@, Snapshot_save(s.data, WAL_current_seq_no(s.wal)))]
         ELSE [s EXCEPT !.ops = ops]

LogTo(s, record) ==
    IF s.wal.open THEN [s EXCEPT !.wal = WAL_append(@, record)] ELSE s

\* ts is now_ms() at entry, self is node_id_.
execute_local(s, cmd, ts, self) ==
    CASE cmd.type = "PING" -> [resp |-> format_pong, state |-> s]
      [] cmd.type = "GET" ->
            LET result == StorageEngine_get(s.data, cmd.key) IN
            [resp |-> IF ~result.found THEN format_not_found ELSE format_value(result.value),
             state |-> s]
      [] cmd.type = "SET" ->
            LET s1 == LogTo(s, WalRecord(ts, "SET", cmd.key, cmd.value))
                s2 == [s1 EXCEPT !.data =
                          StorageEngine_set(@, cmd.key, cmd.value, Version(ts, self)).data]
            IN  [resp |-> format_ok, state |-> maybe_snapshot(s2)]
      [] cmd.type = "DEL" ->
            LET s1 == LogTo(s, WalRecord(ts, "DEL", cmd.key, ""))
                s2 == [s1 EXCEPT !.data =
                          StorageEngine_del(@, cmd.key, Version(ts, self)).data]
            IN  [resp |-> format_ok, state |-> maybe_snapshot(s2)]
      [] cmd.type = "RSET" ->
            LET v  == Version(cmd.timestamp_ms, cmd.node_id)
                s1 == LogTo(s, WalRecord(cmd.timestamp_ms, "SET", cmd.key, cmd.value))
                s2 == [s1 EXCEPT !.data = StorageEngine_set(@, cmd.key, cmd.value, v).data]
            IN  [resp |-> format_ok, state |-> maybe_snapshot(s2)]
      [] cmd.type = "RDEL" ->
            LET v  == Version(cmd.timestamp_ms, cmd.node_id)
                s1 == LogTo(s, WalRecord(cmd.timestamp_ms, "DEL", cmd.key, ""))
                s2 == [s1 EXCEPT !.data = StorageEngine_del(@, cmd.key, v).data]
            IN  [resp |-> format_ok, state |-> maybe_snapshot(s2)]
      [] cmd.type = "RGET" ->
            LET result == StorageEngine_get(s.data, cmd.key) IN
            [resp |-> IF ~result.found THEN format_not_found
                      ELSE format_versioned_value(result.value,
                                                  result.version.timestamp_ms,
                                                  result.version.node_id),
             state |-> s]
      [] OTHER -> [resp |-> format_error("INTERNAL"), state |-> s]

(***************************************************************************)
(* The cluster at start-up: main() has built the ring, every store and     *)
(* hint store is empty.  memberships, quorums and wals are the             *)
(* configurations a specification starts from.                             *)
(***************************************************************************)
murmurhash3_key(key) == 0

ClusterStart(memberships, quorums, wals) ==
    /\ \E members \in memberships : ring = build_ring(EmptyRing, members)
    /\ key_hash = [k \in ClusterKeys |-> murmurhash3_key(k)]
    /\ quorum \in quorums
    /\ clock = [n \in Nodes |-> 1]
    /\ store = [n \in Nodes |-> [k \in ClusterKeys |-> Absent]]
    /\ \E w \in wals : wal = [n \in Nodes |-> w]
    /\ ops_since_snapshot = [n \in Nodes |-> 0]
    /\ snapshots = [n \in Nodes |-> <<>>]
    /\ hints = [n \in Nodes |-> <<>>]
    /\ writes = <<>>
    /\ reads = <<>>
    /\ repairs = <<>>
    /\ replays = <<>>
    /\ delivered = {}
    /\ hint_log = {}
    /\ hint_acked = {}

nodeDataVars == <<store, wal, ops_since_snapshot, snapshots>>

ApplyNode(n, st) ==
    /\ store' = [store EXCEPT ![n] = st.data]
    /\ wal' = [wal EXCEPT ![n] = st.wal]
    /\ ops_since_snapshot' = [ops_since_snapshot EXCEPT ![n] = st.ops]
    /\ snapshots' = [snapshots EXCEPT ![n] = st.snaps]

Payload(key, value, is_del, version) ==
    [key |-> key, value |-> value, is_del |-> is_del, version |-> version]

(***************************************************************************)
(* send_replication_write.  What the network and the peer do is the        *)
(* outcome: "unreachable" (no connection, or the send fails: the peer      *)
(* never sees the frame), "acked" (the peer runs handle_command on the     *)
(* RSET/RDEL frame and its answer arrives), "reply_lost" (the peer runs    *)
(* it, the answer does not arrive before the receive fails).  The          *)
(* specifications below draw from the first two.                           *)
(***************************************************************************)
WriteOutcomes == {"acked", "unreachable"}

send_replication_write(address, key, value, is_del, version, outcome) ==
    LET target == NodeAt(address)
        frame  == IF is_del
                  THEN Command("RDEL", key, "", version.timestamp_ms, version.node_id)
                  ELSE Command("RSET", key, value, version.timestamp_ms, version.node_id)
        \* handle_command of the peer: RSET and RDEL go to execute_local.
        res    == execute_local(NodeState(target), frame, clock[target], target)
    IN  IF outcome = "unreachable"
        THEN [ok |-> FALSE, executed |-> FALSE, target |-> target,
              state |-> NodeState(target)]
        ELSE [ok |-> outcome = "acked" /\ res.resp = format_ok, executed |-> TRUE,
              target |-> target, state |-> res.state]

(***************************************************************************)
(* quorum_write: the entry (replica set, version), one step per replica    *)
(* leg (the legs run on threads of their own), and the return after the    *)
(* join.  now_ms() is read at the entry; a node's clock never goes back.   *)
(***************************************************************************)
\* The client's SET of one of the values, or DEL.
WriteRequests(values) ==
    {[value |-> v, is_del |-> FALSE] : v \in values} \cup {[value |-> "", is_del |-> TRUE]}

quorum_write_too_few(acks, write_quorum) ==
    IF acks > write_quorum THEN format_ok ELSE format_error("QUORUM_FAILED")

quorum_write_result(acks, write_quorum) ==
    IF acks >= write_quorum THEN format_ok ELSE format_error("QUORUM_FAILED")

quorum_write_begin(c, values) ==
    \E key \in ClusterKeys, req \in WriteRequests(values), now \in clock[c]..MaxClock :
        LET replicas == get_replica_nodes(ring, key_hash[key], quorum.replication_factor)
            version  == Version(now, c)
        IN  /\ Len(writes) < MaxWrites
            /\ clock' = [clock EXCEPT ![c] = now]
            /\ writes' = Append(writes,
                   [coord |-> c, key |-> key, value |-> req.value, is_del |-> req.is_del,
                    version |-> version, replicas |-> replicas,
                    pending |-> 1..Len(replicas), acks |-> 0, hinted |-> {},
                    resp |-> IF replicas = <<>> THEN format_error("EMPTY_RING") ELSE <<>>])
            /\ UNCHANGED <<storeVars, diskVars, extVars, lateVars, configVars, nodeDataVars, hints, reads, repairs,
                           replays, historyVars>>

quorum_write_leg(c) ==
    \E w \in 1..Len(writes), outcome \in WriteOutcomes :
        \E i \in writes[w].pending :
            LET op      == writes[w]
                replica == op.replicas[i]
                local   == replica.node_id = op.coord
                rcmd    == Command(IF op.is_del THEN "RDEL" ELSE "RSET", op.key, op.value,
                                   op.version.timestamp_ms, op.version.node_id)
                lres    == execute_local(NodeState(op.coord), rcmd, clock[op.coord], op.coord)
                sent    == send_replication_write(replica.address, op.key, op.value,
                                                  op.is_del, op.version, outcome)
                ok      == IF local THEN lres.resp = format_ok ELSE sent.ok
                target  == IF local THEN op.coord ELSE sent.target
                hint    == Hint(replica.address, replica.node_id, op.key, op.value,
                                op.is_del, op.version)
            IN  /\ op.coord = c
                /\ local => outcome = "acked"
                /\ ApplyNode(target, IF local THEN lres.state ELSE sent.state)
                /\ delivered' = IF local \/ sent.executed
                                THEN delivered \cup
                                     {<<target, Payload(op.key, op.value, op.is_del, op.version)>>}
                                ELSE delivered
                /\ IF ok
                   THEN UNCHANGED <<hints, hint_log>>
                   ELSE /\ hints' = [hints EXCEPT ![c] = HintStore_store(@, hint)]
                        /\ hint_log' = hint_log \cup {<<c, hint>>}
                /\ writes' = [writes EXCEPT ![w].pending = @ \ {i},
                                            ![w].acks = IF ok THEN @ + 1 ELSE @,
                                            ![w].hinted = IF ok THEN @ ELSE @ \cup {i}]
                /\ UNCHANGED <<storeVars, diskVars, extVars, lateVars, configVars, clock, reads, repairs, replays,
                               hint_acked>>

quorum_write_end(c) ==
    \E w \in 1..Len(writes) :
        /\ writes[w].coord = c
        /\ writes[w].resp = <<>>
        /\ writes[w].pending = {}
        /\ writes' = [writes EXCEPT ![w].resp =
                          quorum_write_result(writes[w].acks, quorum.write_quorum)]
        /\ UNCHANGED <<storeVars, diskVars, extVars, lateVars, configVars, nodeVars, reads, repairs, replays,
                       historyVars>>

(***************************************************************************)
(* replay_hints_for(target_node_id, target_address): the snapshot of the   *)
(* target's hints, one send per pending hint in order, the clear at the    *)
(* end.  A caller passes the target's current address or the empty string; *)
(* sends[i] is the address the i-th pending hint goes to.  The call that   *)
(* finds no hint returns at once and changes nothing.                      *)
(***************************************************************************)
replay_clear_always(h, target_node_id, all_ok) ==
    HintStore_clear_hints_for(h, target_node_id)

replay_clear(h, target_node_id, all_ok) ==
    IF all_ok THEN HintStore_clear_hints_for(h, target_node_id) ELSE h

replay_begin(c) ==
    \E t \in Nodes :
        \E address \in {"", AddressOf[t]} :
            LET pending == HintStore_get_hints_for(hints[c], t) IN
            /\ Len(replays) < MaxReplays
            /\ pending # <<>>
            /\ replays' = Append(replays,
                   [coord |-> c, target |-> t, pending |-> pending,
                    sends |-> [i \in 1..Len(pending) |->
                                  IF address = "" THEN pending[i].target_address
                                  ELSE address],
                    next |-> 1, all_ok |-> TRUE, acked |-> {}, done |-> FALSE])
            /\ UNCHANGED <<storeVars, diskVars, extVars, lateVars, configVars, nodeVars, writes, reads, repairs,
                           historyVars>>

replay_send(c) ==
    \E j \in 1..Len(replays), outcome \in WriteOutcomes :
        LET r    == replays[j]
            hint == r.pending[r.next]
            addr == r.sends[r.next]
            sent == send_replication_write(addr, hint.key, hint.value, hint.is_del,
                                           hint.version, outcome)
        IN  /\ r.coord = c
            /\ ~r.done
            /\ r.next <= Len(r.pending)
            /\ ApplyNode(sent.target, sent.state)
            /\ delivered' = IF sent.executed
                            THEN delivered \cup
                                 {<<sent.target,
                                    Payload(hint.key, hint.value, hint.is_del, hint.version)>>}
                            ELSE delivered
            /\ hint_acked' = IF sent.ok /\ sent.target = r.target
                             THEN hint_acked \cup {<<c, hint>>} ELSE hint_acked
            /\ replays' = [replays EXCEPT ![j].next = @ + 1,
                                          ![j].all_ok = @ /\ sent.ok,
                                          ![j].acked = IF sent.ok THEN @ \cup {r.next} ELSE @]
            /\ UNCHANGED <<storeVars, diskVars, extVars, lateVars, configVars, clock, hints, writes, reads, repairs,
                           hint_log>>

replay_end(c) ==
    \E j \in 1..Len(replays) :
        LET r == replays[j] IN
        /\ r.coord = c
        /\ ~r.done
        /\ r.next > Len(r.pending)
        /\ hints' = [hints EXCEPT ![c] = replay_clear(@, r.target, r.all_ok)]
        /\ replays' = [replays EXCEPT ![j].done = TRUE]
        /\ UNCHANGED <<storeVars, diskVars, extVars, lateVars, configVars, nodeDataVars, clock, writes, reads, repairs,
                       historyVars>>

HintsNext ==
    \E c \in Coordinators :
        \/ quorum_write_begin(c, {"a"})
        \/ quorum_write_leg(c)
        \/ quorum_write_end(c)
        \/ replay_begin(c)
        \/ replay_send(c)
        \/ replay_end(c)

HintsInit == ExtIdle /\ StoreIdle /\ DiskIdle /\ ClusterStart(RingMemberships, QuorumChoices, {EmptyWal})

SpecHints == HintsInit /\ [][HintsNext]_vars

(***************************************************************************)
(* quorum_read: the entry (the first R replicas), one step per replica     *)
(* leg, and after the join the choice of the answer and the hand-off to    *)
(* read_repair_async.                                                      *)
(***************************************************************************)
ReadOutcomes == {"answered", "unreachable"}

ReadResponse(ok, found, value, version) ==
    [ok |-> ok, found |-> found, value |-> value, version |-> version]

send_replication_read(address, key, outcome) ==
    LET target == NodeAt(address)
        res    == execute_local(NodeState(target), Command("RGET", key, "", 0, 0),
                                clock[target], target)
        parsed == parse_versioned_response(res.resp)
    IN  IF outcome = "unreachable" THEN ReadResponse(FALSE, FALSE, "", ZeroVersion)
        ELSE ReadResponse(TRUE, parsed.found, parsed.value,
                          Version(parsed.timestamp_ms, parsed.node_id))

\* The oldest found answer instead of the newest.
RECURSIVE scan_oldest(_, _, _)
scan_oldest(responses, i, best) ==
    IF i > Len(responses) THEN best
    ELSE LET r == responses[i] IN
         IF r.ok /\ r.found /\ (best = 0 \/ is_newer(responses[best].version, r.version))
         THEN scan_oldest(responses, i + 1, i)
         ELSE scan_oldest(responses, i + 1, best)

\* The loop over the responses; best is an index, 0 for nullptr.
RECURSIVE scan_best(_, _, _)
scan_best(responses, i, best) ==
    IF i > Len(responses) THEN best
    ELSE LET r == responses[i] IN
         IF r.ok /\ r.found /\
            (best = 0 \/ ~responses[best].found \/ is_newer(r.version, responses[best].version))
         THEN scan_best(responses, i + 1, i)
         ELSE scan_best(responses, i + 1, best)

\* The stale list without the replicas that answered not-found.
collect_stale_found_only(replicas, responses, best) ==
    LET idx == SelectSeq([i \in 1..Len(responses) |-> i],
                         LAMBDA i : /\ responses[i].ok
                                    /\ responses[i].found
                                    /\ is_newer(responses[best].version,
                                                responses[i].version))
    IN  [j \in 1..Len(idx) |-> replicas[idx[j]]]

collect_stale(replicas, responses, best) ==
    LET idx == SelectSeq([i \in 1..Len(responses) |-> i],
                         LAMBDA i : /\ responses[i].ok
                                    /\ \/ ~responses[i].found
                                       \/ is_newer(responses[best].version,
                                                   responses[i].version))
    IN  [j \in 1..Len(idx) |-> replicas[idx[j]]]

quorum_read_begin(c) ==
    \E key \in ClusterKeys :
        LET replicas == get_replica_nodes(ring, key_hash[key], quorum.read_quorum) IN
        /\ Len(reads) < MaxReads
        /\ reads' = Append(reads,
               [coord |-> c, key |-> key, replicas |-> replicas,
                pending |-> 1..Len(replicas),
                responses |-> [i \in 1..Len(replicas) |->
                                  ReadResponse(FALSE, FALSE, "", ZeroVersion)],
                after |-> {w \in 1..Len(writes) : writes[w].resp = format_ok},
                issued |-> Len(writes),
                resp |-> IF replicas = <<>> THEN format_error("EMPTY_RING") ELSE <<>>])
        /\ UNCHANGED <<storeVars, diskVars, extVars, lateVars, configVars, nodeVars, writes, repairs, replays,
                       historyVars>>

quorum_read_leg(c) ==
    \E g \in 1..Len(reads), outcome \in ReadOutcomes :
        \E i \in reads[g].pending :
            LET op      == reads[g]
                rep     == op.replicas[i]
                local   == rep.node_id = c
                r       == StorageEngine_get(store[c], op.key)
                answer  == IF local THEN ReadResponse(TRUE, r.found, r.value, r.version)
                           ELSE send_replication_read(rep.address, op.key, outcome)
            IN  /\ op.coord = c
                /\ local => outcome = "answered"
                /\ reads' = [reads EXCEPT ![g].pending = @ \ {i},
                                          ![g].responses[i] = answer]
                /\ UNCHANGED <<storeVars, diskVars, extVars, lateVars, configVars, nodeVars, writes, repairs, replays,
                               historyVars>>

quorum_read_end(c) ==
    \E g \in 1..Len(reads) :
        LET op       == reads[g]
            best     == scan_best(op.responses, 1, 0)
            ok_count == Cardinality({i \in 1..Len(op.responses) : op.responses[i].ok})
            stale    == collect_stale(op.replicas, op.responses, best)
        IN  /\ op.coord = c
            /\ op.resp = <<>>
            /\ op.pending = {}
            /\ reads' = [reads EXCEPT ![g].resp =
                   IF ok_count = 0 THEN format_error("QUORUM_FAILED")
                   ELSE IF best = 0 \/ ~op.responses[best].found THEN format_not_found
                   ELSE format_value(op.responses[best].value)]
            /\ repairs' = IF ok_count # 0 /\ best # 0 /\ stale # <<>>
                          THEN Append(repairs,
                                   [coord |-> c, key |-> op.key,
                                    value |-> op.responses[best].value,
                                    latest_ver |-> op.responses[best].version,
                                    stale |-> stale, next |-> 1,
                                    read |-> g, unreached |-> {}])
                          ELSE repairs
            /\ UNCHANGED <<storeVars, diskVars, extVars, lateVars, configVars, nodeVars, writes, replays, historyVars>>

\* The detached thread of read_repair_async: one stale replica per step.
\* read is the quorum_read that started the thread, unreached the stale
\* replicas its send did not reach.
read_repair_step(c) ==
    \E p \in 1..Len(repairs), outcome \in WriteOutcomes :
        LET job     == repairs[p]
            replica == job.stale[job.next]
            local   == replica.node_id = c
            sent    == send_replication_write(replica.address, job.key, job.value, FALSE,
                                              job.latest_ver, outcome)
        IN  /\ job.coord = c
            /\ job.next <= Len(job.stale)
            /\ local => outcome = "acked"
            /\ IF local
               THEN /\ store' = [store EXCEPT ![c] =
                           StorageEngine_set(@, job.key, job.value, job.latest_ver).data]
                    /\ UNCHANGED <<wal, ops_since_snapshot, snapshots>>
               ELSE ApplyNode(sent.target, sent.state)
            /\ delivered' = IF local \/ sent.executed
                            THEN delivered \cup
                                 {<<IF local THEN c ELSE sent.target,
                                    Payload(job.key, job.value, FALSE, job.latest_ver)>>}
                            ELSE delivered
            /\ repairs' = [repairs EXCEPT
                              ![p].next = @ + 1,
                              ![p].unreached = IF local \/ sent.executed THEN @
                                               ELSE @ \cup {replica.node_id}]
            /\ UNCHANGED <<storeVars, diskVars, extVars, lateVars, configVars, clock, hints, writes, reads, replays,
                           hint_log, hint_acked>>

\* Reads over two replicas of which one write acknowledgement suffices, and
\* a single replica, on a ring of three nodes.
ReadScenarioRings == {{1, 2, 3}}

ReadScenarioQuorums ==
    {[replication_factor |-> 1, write_quorum |-> 1, read_quorum |-> 1],
     [replication_factor |-> 2, write_quorum |-> 1, read_quorum |-> 2]}

QuorumNext ==
    \E c \in Coordinators :
        \/ quorum_write_begin(c, Values)
        \/ quorum_write_leg(c)
        \/ quorum_write_end(c)
        \/ quorum_read_begin(c)
        \/ quorum_read_leg(c)
        \/ quorum_read_end(c)
        \/ read_repair_step(c)

QuorumInit == ExtIdle /\ StoreIdle /\ DiskIdle /\ ClusterStart(ReadScenarioRings, ReadScenarioQuorums, {EmptyWal})

SpecQuorum == QuorumInit /\ [][QuorumNext]_vars

\* The detached repair thread runs on as long as the process lives.
RepairFairness == WF_vars(\E c \in Coordinators : read_repair_step(c))

SpecRepair == QuorumInit /\ [][QuorumNext]_vars /\ RepairFairness

(***************************************************************************)
(* One node alone in its ring with N = W = R = 1, and a client that sends  *)
(* its next command when the previous one has been answered.               *)
(***************************************************************************)
NoCallInFlight ==
    /\ \A w \in 1..Len(writes) : writes[w].resp # <<>>
    /\ \A g \in 1..Len(reads) : reads[g].resp # <<>>

SingleNodeQuorum == [replication_factor |-> 1, write_quorum |-> 1, read_quorum |-> 1]

SingleNext ==
    \/ NoCallInFlight /\ quorum_write_begin(1, Values)
    \/ quorum_write_leg(1)
    \/ quorum_write_end(1)
    \/ NoCallInFlight /\ quorum_read_begin(1)
    \/ quorum_read_leg(1)
    \/ quorum_read_end(1)

SingleInit == ExtIdle /\ StoreIdle /\ DiskIdle /\ ClusterStart({{1}}, {SingleNodeQuorum}, {EmptyWal})

SpecSingle == SingleInit /\ [][SingleNext]_vars

(***************************************************************************)
(* The write-ahead log as a file of bytes.  A 32-bit unsigned value is a   *)
(* pair of 16-bit halves [hi, lo], so that the arithmetic of the code      *)
(* keeps its width.                                                        *)
(***************************************************************************)
U32(n) == [hi |-> (n \div 65536) % 65536, lo |-> n % 65536]

\* x + y in uint32_t
u32_add(x, y) ==
    [hi |-> (x.hi + y.hi + ((x.lo + y.lo) \div 65536)) % 65536,
     lo |-> (x.lo + y.lo) % 65536]

\* x > n for a uint32_t x converted to size_t and a size_t n below 2^31
u32_gt(x, n) ==
    \/ x.hi > n \div 65536
    \/ x.hi = n \div 65536 /\ x.lo > n % 65536

\* a uint32_t that fits the buffers of the model, as a number
u32_small(x) == x.hi * 65536 + x.lo

RECURSIVE Xor(_, _, _)
\* a ^ b on the low `bits` bits
Xor(a, b, bits) ==
    IF bits = 0 THEN 0
    ELSE ((a + b) % 2) + 2 * Xor(a \div 2, b \div 2, bits - 1)

u32_xor(x, y) == [hi |-> Xor(x.hi, y.hi, 16), lo |-> Xor(x.lo, y.lo, 16)]

\* x >> k for 0 < k < 16
u32_shr(x, k) ==
    [hi |-> x.hi \div (2 ^ k),
     lo |-> (x.lo \div (2 ^ k)) + (x.hi % (2 ^ k)) * (2 ^ (16 - k))]

\* 0xEDB88320
CRC32_POLY == [hi |-> 60856, lo |-> 33568]

RECURSIVE crc32_table_entry(_, _)
crc32_table_entry(crc, j) ==
    IF j = 0 THEN crc
    ELSE crc32_table_entry(IF crc.lo % 2 = 1
                           THEN u32_xor(u32_shr(crc, 1), CRC32_POLY)
                           ELSE u32_shr(crc, 1),
                           j - 1)

CRC32_TABLE == [i \in 0..255 |-> crc32_table_entry(U32(i), 8)]

RECURSIVE crc32_loop(_, _, _, _)
crc32_loop(crc, data, from, len) ==
    IF len = 0 THEN crc
    ELSE LET \* the loop body runs before the next iteration starts
             next == u32_xor(CRC32_TABLE[Xor(crc.lo % 256, data[from], 8)],
                             u32_shr(crc, 8))
         IN  IF next.lo >= 0 THEN crc32_loop(next, data, from + 1, len - 1) ELSE next

\* crc32 of the len bytes of data that follow position `from` (0-based)
crc32(data, from, len) ==
    u32_xor(crc32_loop([hi |-> 65535, lo |-> 65535], data, from + 1, len),
            [hi |-> 65535, lo |-> 65535])

write_u32(x) == <<x.lo % 256, x.lo \div 256, x.hi % 256, x.hi \div 256>>

RECURSIVE write_le(_, _)
write_le(val, n) ==
    IF n = 0 THEN <<>> ELSE <<val % 256>> \o write_le(val \div 256, n - 1)

write_u64(val) == write_le(val, 8)

\* the uint32_t at the 0-based offset p of data
read_u32(data, p) ==
    [hi |-> data[p + 3] + 256 * data[p + 4], lo |-> data[p + 1] + 256 * data[p + 2]]

RECURSIVE read_le(_, _, _)
read_le(data, p, n) ==
    IF n = 0 THEN 0 ELSE data[p + 1] + 256 * read_le(data, p + 1, n - 1)

\* the uint64_t at the 0-based offset p of data
read_u64(data, p) == read_le(data, p, 8)

SubBytes(data, p, n) == [i \in 1..n |-> data[p + i]]

OpSET == 0
OpDEL == 1

\* A record of the file: key and value are byte strings.
FileRecord(seq_no, timestamp_ms, op_type, key, value) ==
    [seq_no |-> seq_no, timestamp_ms |-> timestamp_ms, op_type |-> op_type,
     key |-> key, value |-> value]

serialize(record) ==
    LET payload == write_u64(record.seq_no) \o write_u64(record.timestamp_ms)
                   \o <<record.op_type>>
                   \o write_u32(U32(Len(record.key))) \o record.key
                   \o write_u32(U32(Len(record.value))) \o record.value
    IN  write_u32(crc32(payload, 0, Len(payload))) \o payload

HEADER_SIZE == 4
FIXED_PAYLOAD == 21
MIN_SIZE == HEADER_SIZE + FIXED_PAYLOAD + 4

\* x + y does not fit uint32_t
u32_carry(x, y) == x.hi + y.hi + ((x.lo + y.lo) \div 65536) >= 65536

NoRecord == FileRecord(0, 0, OpSET, <<>>, <<>>)

DeserializeFailed == [ok |-> FALSE, fault |-> FALSE, out |-> NoRecord, bytes_consumed |-> 0]

\* The read ran outside the buffer and the process was killed.
DeserializeFault == [ok |-> FALSE, fault |-> TRUE, out |-> NoRecord, bytes_consumed |-> 0]

\* What a read outside the buffer can do: kill the process, or deliver a word.
OutOfBoundsReads ==
    {[fault |-> TRUE, word |-> U32(0)], [fault |-> FALSE, word |-> U32(0)],
     [fault |-> FALSE, word |-> U32(1)]}

\* deserialize(data + offset, len, out, bytes_consumed); oob is what a read
\* outside the buffer does.
deserialize(data, offset, len, oob) ==
    IF len < MIN_SIZE THEN DeserializeFailed
    ELSE
    LET stored_crc    == read_u32(data, offset)
        payload       == offset + HEADER_SIZE
        payload_avail == len - HEADER_SIZE
        seq_no        == read_u64(data, payload)
        timestamp_ms  == read_u64(data, payload + 8)
        op_type       == data[payload + 16 + 1]
        key_len       == read_u32(data, payload + 17)
        \* 21 + key_len + 4, computed in uint32_t
        val_len_end   == u32_add(u32_add(U32(FIXED_PAYLOAD), key_len), U32(4))
    IN
    IF u32_gt(val_len_end, payload_avail) THEN DeserializeFailed
    ELSE
    LET \* payload + 21 + key_len is pointer arithmetic and does not wrap
        val_len_inside == ~u32_gt(key_len, payload_avail - FIXED_PAYLOAD - 4)
    IN
    IF ~val_len_inside /\ oob.fault THEN DeserializeFault
    ELSE
    LET val_len       == IF val_len_inside
                         THEN read_u32(data, payload + FIXED_PAYLOAD + u32_small(key_len))
                         ELSE oob.word
        \* 21 + key_len + 4 + val_len, computed in uint32_t
        total_payload == u32_add(val_len_end, val_len)
    IN
    \* total_record = HEADER_SIZE + total_payload is a size_t
    IF u32_gt(total_payload, len - HEADER_SIZE) THEN DeserializeFailed
    ELSE
    IF crc32(data, payload, u32_small(total_payload)) # stored_crc THEN DeserializeFailed
    ELSE
    LET fields_inside == val_len_inside /\ ~u32_carry(val_len_end, val_len)
    IN
    IF ~fields_inside
    THEN \* key.assign / value.assign copy from outside the buffer
         IF oob.fault THEN DeserializeFault
         ELSE [ok |-> TRUE, fault |-> FALSE,
               out |-> FileRecord(seq_no, timestamp_ms, op_type, <<>>, <<>>),
               bytes_consumed |-> HEADER_SIZE + u32_small(total_payload)]
    ELSE [ok |-> TRUE, fault |-> FALSE,
          out |-> FileRecord(seq_no, timestamp_ms, op_type,
                             SubBytes(data, payload + FIXED_PAYLOAD, u32_small(key_len)),
                             SubBytes(data, payload + FIXED_PAYLOAD + 4 + u32_small(key_len),
                                      u32_small(val_len))),
          bytes_consumed |-> HEADER_SIZE + u32_small(total_payload)]

RECURSIVE recover_loop(_, _, _, _, _)
recover_loop(data, offset, records, next_seq_no, oob) ==
    IF offset >= Len(data)
    THEN [records |-> records, next_seq_no_ |-> next_seq_no, fault |-> FALSE]
    ELSE LET d == deserialize(data, offset, Len(data) - offset, oob) IN
         IF d.fault
         THEN [records |-> <<>>, next_seq_no_ |-> next_seq_no, fault |-> TRUE]
         ELSE IF ~d.ok
         THEN [records |-> records, next_seq_no_ |-> next_seq_no, fault |-> FALSE]
         ELSE recover_loop(data, offset + d.bytes_consumed, Append(records, d.out),
                           IF d.out.seq_no >= next_seq_no
                           THEN d.out.seq_no + 1 ELSE next_seq_no,
                           oob)

\* WAL::recover on the file `data` by an object whose counter is next_seq_no:
\* the records returned and the counter afterwards; fault when the process
\* died inside the call and nothing was returned.
recover(data, next_seq_no, oob) == recover_loop(data, 0, <<>>, next_seq_no, oob)

(***************************************************************************)
(* The log file across process lifetimes.  wal_file is the file as the     *)
(* running process sees it; its first wal_synced bytes are on stable       *)
(* storage.  A crash keeps the synced bytes and any prefix of the rest.    *)
(***************************************************************************)
MaxAppends == 2
MaxCrashes == 2
MaxLifetimes == 3

FileKey == <<107>>
FileValues == {<<97>>}

\* The records a caller hands to append: seq_no is assigned by the log.
AppendRequests ==
    {FileRecord(0, 1, OpSET, FileKey, v) : v \in FileValues}
        \cup {FileRecord(0, 1, OpDEL, FileKey, <<>>)}

NoDamage == [kind |-> "none", pos |-> 0]

NotRecovered == [done |-> FALSE, records |-> <<>>, fault |-> FALSE]

\* A directory that holds no log yet and no process.
DiskInit ==
    /\ wal_file = <<>>
    /\ wal_synced = 0
    /\ wal_object = [open |-> FALSE, next_seq_no_ |-> 1, lifetime |-> 0]
    /\ wal_recovered = NotRecovered
    /\ wal_appends = <<>>
    /\ wal_damage = [crashes |-> 0, stopped_by |-> "none", damage |-> NoDamage]

\* WAL::open followed by WAL::recover, as the start of the process does:
\* a new WAL object (next_seq_no_ = 1) on the file that is there.
WAL_open_recover ==
    /\ ~wal_object.open
    /\ wal_object.lifetime < MaxLifetimes
    /\ \E oob \in OutOfBoundsReads :
        LET r == recover(wal_file, 1, oob) IN
        /\ wal_object' = [open |-> ~r.fault, next_seq_no_ |-> r.next_seq_no_,
                          lifetime |-> wal_object.lifetime + 1]
        /\ wal_recovered' = [done |-> TRUE, records |-> r.records, fault |-> r.fault]
    /\ UNCHANGED <<wal_file, wal_synced, wal_appends, wal_damage, storeVars, clusterVars, nodeRunVars, extVars, lateVars>>

\* WAL::append, under mutex_: concurrent calls run one after the other.
WAL_append_file(record) ==
    /\ wal_object.open
    /\ Len(wal_appends) < MaxAppends
    /\ LET rec == [record EXCEPT !.seq_no = wal_object.next_seq_no_] IN
        /\ wal_object' = [wal_object EXCEPT !.next_seq_no_ = @ + 1]
        /\ wal_file' = wal_file \o serialize(rec)
        /\ wal_appends' = Append(wal_appends,
                                 [seq_no |-> rec.seq_no, record |-> rec,
                                  lifetime |-> wal_object.lifetime, synced |-> FALSE])
    /\ UNCHANGED <<wal_synced, wal_recovered, wal_damage, storeVars, clusterVars, nodeRunVars, extVars, lateVars>>

\* WAL::sync: fsync has returned; what this process appended is synced.
WAL_sync ==
    /\ wal_object.open
    /\ wal_synced' = Len(wal_file)
    /\ wal_appends' = [i \in 1..Len(wal_appends) |->
                           IF wal_appends[i].lifetime = wal_object.lifetime
                           THEN [wal_appends[i] EXCEPT !.synced = TRUE]
                           ELSE wal_appends[i]]
    /\ UNCHANGED <<wal_file, wal_object, wal_recovered, wal_damage, storeVars, clusterVars, nodeRunVars, extVars, lateVars>>

\* WAL::close: a final fsync, then the descriptor is closed.
WAL_close ==
    /\ wal_object.open
    /\ wal_synced' = Len(wal_file)
    /\ wal_object' = [wal_object EXCEPT !.open = FALSE]
    /\ wal_recovered' = NotRecovered
    /\ wal_damage' = [wal_damage EXCEPT !.stopped_by = "close"]
    /\ UNCHANGED <<wal_file, wal_appends, storeVars, clusterVars, nodeRunVars, extVars, lateVars>>

\* The machine stops: the file keeps its synced bytes and a prefix of the
\* bytes written since.
Crash ==
    /\ wal_object.open
    /\ wal_damage.crashes < MaxCrashes
    /\ \E cut \in wal_synced..Len(wal_file) :
        /\ wal_file' = SubSeq(wal_file, 1, cut)
        /\ wal_synced' = cut
    /\ wal_object' = [wal_object EXCEPT !.open = FALSE]
    /\ wal_recovered' = NotRecovered
    /\ wal_damage' = [wal_damage EXCEPT !.crashes = @ + 1, !.stopped_by = "crash"]
    /\ UNCHANGED <<wal_appends, storeVars, clusterVars, nodeRunVars, extVars, lateVars>>

DamageKinds == {"truncate", "flip", "fill"}

\* What the damage of `kind` at byte position pos makes of the file.
Damaged(file, kind, pos) ==
    CASE kind = "truncate" -> SubSeq(file, 1, pos)
      [] kind = "flip" -> [i \in 1..Len(file) |-> IF i = pos + 1 THEN 255 - file[i] ELSE file[i]]
      [] kind = "fill" -> [i \in 1..Len(file) |-> IF i > pos THEN 255 ELSE file[i]]

\* The tail of a closed log is damaged once, from the 0-based byte position
\* pos on: cut off, one byte inverted, or overwritten with 0xFF.
DamageTail ==
    /\ ~wal_object.open
    /\ wal_object.lifetime = 1
    /\ wal_damage.damage = NoDamage
    /\ \E kind \in DamageKinds, pos \in 0..(Len(wal_file) - 1) :
        /\ wal_file' = Damaged(wal_file, kind, pos)
        /\ wal_damage' = [wal_damage EXCEPT !.damage = [kind |-> kind, pos |-> pos]]
    /\ wal_synced' = Len(wal_file')
    /\ UNCHANGED <<wal_object, wal_recovered, wal_appends, storeVars, clusterVars, nodeRunVars, extVars, lateVars>>

WalNext ==
    \/ WAL_open_recover
    \/ \E record \in AppendRequests : WAL_append_file(record)
    \/ WAL_sync
    \/ WAL_close
    \/ Crash

WalInit == ExtIdle /\ StoreIdle /\ ClusterIdle /\ NodeIdle /\ DiskInit

SpecWal == WalInit /\ [][WalNext]_vars

WalDamageNext ==
    \/ WAL_open_recover
    \/ \E record \in AppendRequests : WAL_append_file(record)
    \/ WAL_close
    \/ DamageTail

SpecWalDamage == WalInit /\ [][WalDamageNext]_vars

(***************************************************************************)
(* One node with its log and snapshots, its worker threads each inside a   *)
(* handle_command call for RSET or RDEL, and the next start of the process. *)
(* execute_local runs as the steps the threads can interleave at: the      *)
(* append under the log's mutex, the store call under the shard lock, and  *)
(* the steps of maybe_snapshot.                                            *)
(***************************************************************************)
MaxCommands == 3

ThreadSets == {{1}, {1, 2}}
SnapshotIntervals == {1, 2}
this_node_id == 3

\* RSET and RDEL commands as a coordinator sends them to this replica.
ReplicaCommands ==
    {Command("RSET", k, v, ts, id) :
        k \in StoreKeys, v \in Values, ts \in 1..MaxTs, id \in 1..MaxNodeId}
    \cup {Command("RDEL", "k1", "", ts, id) : ts \in 1..MaxTs, id \in 1..MaxNodeId}

NoPriorCall == [cmd |-> Command("PING", "", "", 0, 0), accepted |-> FALSE]

\* A thread outside handle_command: its last command, whether the store took
\* it, the response it returned, and the call before that (for a read).
IdleWorker == [pc |-> "idle", cmd |-> NoPriorCall.cmd, seq |-> 0,
               accepted |-> FALSE, resp |-> <<>>, prev |-> NoPriorCall]

\* Version v{cmd.timestamp_ms, cmd.node_id}; the node's own id is not used.
command_version_local_node(cmd, self) == Version(cmd.timestamp_ms, self)

command_version(cmd, self) == Version(cmd.timestamp_ms, cmd.node_id)

\* return format_ok() with the store's answer as the condition.
execute_local_return_guarded(accepted) ==
    IF accepted THEN format_ok ELSE format_error("STALE")

\* return format_ok(); the bool of engine_.set / engine_.del is dropped.
execute_local_return(accepted) == format_ok

NotBooted == [up |-> FALSE, snapshot_seq |-> 0, data |-> [k \in StoreKeys |-> Absent]]

NodeStart(threadSets) ==
    /\ \E threads \in threadSets : workers = [t \in threads |-> IdleWorker]
    /\ snapshot_interval_ \in SnapshotIntervals
    /\ node = [data |-> [k \in StoreKeys |-> Absent], wal |-> EmptyWal,
               ops |-> 0, snaps |-> <<>>]
    /\ logged = <<>>
    /\ booted = NotBooted

\* Calls begun so far; logged also lists the reads, with seq_no 0.
Started == Len(logged) + Cardinality({t \in DOMAIN workers : workers[t].pc = "append"})

\* handle_command is entered with an RSET or RDEL command.
handle_command_begin(t, cmd) ==
    /\ ~booted.up
    /\ workers[t].pc = "idle"
    /\ Started < MaxCommands
    /\ workers' = [workers EXCEPT ![t] = [IdleWorker EXCEPT !.pc = "append", !.cmd = cmd]]
    /\ UNCHANGED <<node, snapshot_interval_, logged, booted, storeVars, clusterVars, walFileVars, extVars, lateVars>>

\* wal_->append(rec): the record carries the command's timestamp_ms, not its node_id.
execute_local_append(t) ==
    /\ workers[t].pc = "append"
    /\ LET cmd == workers[t].cmd
           rec == WalRecord(cmd.timestamp_ms, IF cmd.type = "RSET" THEN "SET" ELSE "DEL",
                            cmd.key, cmd.value)
       IN  /\ node' = [node EXCEPT !.wal = WAL_append(@, rec)]
           /\ logged' = Append(logged, [seq_no |-> node.wal.next_seq_no_, cmd |-> cmd])
    /\ workers' = [workers EXCEPT ![t].pc = "apply"]
    /\ UNCHANGED <<snapshot_interval_, booted, storeVars, clusterVars, walFileVars, extVars, lateVars>>

\* engine_.set / engine_.del with the version the command carries.
execute_local_apply(t) ==
    /\ workers[t].pc = "apply"
    /\ LET cmd == workers[t].cmd
           v   == command_version(cmd, this_node_id)
           r   == IF cmd.type = "RSET"
                  THEN StorageEngine_set(node.data, cmd.key, cmd.value, v)
                  ELSE StorageEngine_del(node.data, cmd.key, v)
       IN  /\ node' = [node EXCEPT !.data = r.data]
           /\ workers' = [workers EXCEPT ![t].pc = "count", ![t].accepted = r.ok]
    /\ UNCHANGED <<snapshot_interval_, logged, booted, storeVars, clusterVars, walFileVars, extVars, lateVars>>

\* maybe_snapshot: ops = ++ops_since_snapshot_ and the comparison with the interval.
maybe_snapshot_count(t) ==
    /\ workers[t].pc = "count"
    /\ node' = [node EXCEPT !.ops = @ + 1]
    /\ workers' = [workers EXCEPT ![t] =
                      IF node.ops + 1 >= snapshot_interval_
                      THEN [@ EXCEPT !.pc = "reset"]
                      ELSE [@ EXCEPT !.pc = "idle",
                                     !.resp = execute_local_return(workers[t].accepted)]]
    /\ UNCHANGED <<snapshot_interval_, logged, booted, storeVars, clusterVars, walFileVars, extVars, lateVars>>

\* maybe_snapshot: ops_since_snapshot_ = 0; seq = wal_->current_seq_no().
maybe_snapshot_seq(t) ==
    /\ workers[t].pc = "reset"
    /\ node' = [node EXCEPT !.ops = 0]
    /\ workers' = [workers EXCEPT ![t].pc = "save", ![t].seq = WAL_current_seq_no(node.wal)]
    /\ UNCHANGED <<snapshot_interval_, logged, booted, storeVars, clusterVars, walFileVars, extVars, lateVars>>

\* maybe_snapshot: wal_->sync(); Snapshot::save(engine_, seq, snapshot_dir_).
maybe_snapshot_save(t) ==
    /\ workers[t].pc = "save"
    /\ node' = [node EXCEPT !.snaps = Append(@, Snapshot_save(node.data, workers[t].seq))]
    /\ workers' = [workers EXCEPT ![t].pc = "idle",
                                  ![t].resp = execute_local_return(workers[t].accepted)]
    /\ UNCHANGED <<snapshot_interval_, logged, booted, storeVars, clusterVars, walFileVars, extVars, lateVars>>

\* handle_command with RGET: engine_.get and the versioned response.
handle_command_rget(t, key) ==
    /\ ~booted.up
    /\ workers[t].pc = "idle"
    /\ Started < MaxCommands
    /\ LET cmd    == Command("RGET", key, "", 0, 0)
           result == StorageEngine_get(node.data, key)
           resp   == IF ~result.found THEN format_not_found
                     ELSE format_versioned_value(result.value,
                                                 result.version.timestamp_ms,
                                                 result.version.node_id)
       IN  /\ workers' = [workers EXCEPT ![t] =
                             [IdleWorker EXCEPT !.cmd = cmd, !.resp = resp,
                                 !.prev = [cmd |-> workers[t].cmd,
                                           accepted |-> workers[t].accepted]]]
           /\ logged' = Append(logged, [seq_no |-> 0, cmd |-> cmd])
    /\ UNCHANGED <<node, snapshot_interval_, booted, storeVars, clusterVars, walFileVars, extVars, lateVars>>

\* Snapshot::find_latest: the file with the largest seq; a later save at the
\* same seq has overwritten an earlier one.
Snapshot_find_latest(snaps) ==
    LET best == CHOOSE i \in 1..Len(snaps) :
                    \A j \in 1..Len(snaps) :
                        \/ snaps[j].seq_no < snaps[i].seq_no
                        \/ snaps[j].seq_no = snaps[i].seq_no /\ j <= i
    IN  snaps[best]

RECURSIVE load_entries(_, _)
\* main: every entry of the snapshot goes through set or del with its version.
load_entries(data, entries) ==
    IF entries = {} THEN data
    ELSE LET e == CHOOSE x \in entries : TRUE
             d == IF e[2].is_tombstone
                  THEN StorageEngine_del(data, e[1], e[2].version).data
                  ELSE StorageEngine_set(data, e[1], e[2].value, e[2].version).data
         IN  load_entries(d, entries \ {e})

RECURSIVE replay_records(_, _, _, _, _)
\* main: the records behind the snapshot go through set or del with the
\* version (rec.timestamp_ms, cfg.node_id).
replay_records(data, records, i, snapshot_seq, node_id) ==
    IF i > Len(records) THEN data
    ELSE LET rec == records[i]
             v   == Version(rec.timestamp_ms, node_id)
             d   == IF rec.seq_no <= snapshot_seq THEN data
                    ELSE IF rec.op_type = "SET"
                    THEN StorageEngine_set(data, rec.key, rec.value, v).data
                    ELSE StorageEngine_del(data, rec.key, v).data
         IN  replay_records(d, records, i + 1, snapshot_seq, node_id)

\* main: the engine of a starting process, from the latest snapshot and the log.
bootstrap(snaps, records, node_id) ==
    LET empty        == [k \in StoreKeys |-> Absent]
        have         == snaps # <<>>
        snapshot_seq == IF have THEN Snapshot_find_latest(snaps).seq_no ELSE 0
        loaded       == IF have
                        THEN load_entries(empty, Snapshot_find_latest(snaps).entries)
                        ELSE empty
    IN  [up |-> TRUE, snapshot_seq |-> snapshot_seq,
         data |-> replay_records(loaded, records, 1, snapshot_seq, node_id)]

\* The process ends with every call finished and the log synced, and starts again.
Restart ==
    /\ ~booted.up
    /\ \A t \in DOMAIN workers : workers[t].pc = "idle"
    /\ booted' = bootstrap(node.snaps, node.wal.records, this_node_id)
    /\ UNCHANGED <<node, workers, snapshot_interval_, logged, storeVars, clusterVars, walFileVars, extVars, lateVars>>

\* The commands of the threads that run side by side: one key.
ConcurrentCommands == {cmd \in ReplicaCommands : cmd.type = "RSET" /\ cmd.key = "k1"}

SnapshotNext ==
    \/ \E t \in DOMAIN workers, cmd \in ConcurrentCommands : handle_command_begin(t, cmd)
    \/ \E t \in DOMAIN workers : execute_local_append(t)
    \/ \E t \in DOMAIN workers : execute_local_apply(t)
    \/ \E t \in DOMAIN workers : maybe_snapshot_count(t)
    \/ \E t \in DOMAIN workers : maybe_snapshot_seq(t)
    \/ \E t \in DOMAIN workers : maybe_snapshot_save(t)
    \/ Restart

SnapshotInit == ExtIdle /\ StoreIdle /\ ClusterIdle /\ WalFileIdle /\ NodeStart(ThreadSets)

SpecSnapshot == SnapshotInit /\ [][SnapshotNext]_vars

\* One thread, so that one command ends before the next begins.
BootstrapNext ==
    \/ \E t \in DOMAIN workers, cmd \in ReplicaCommands : handle_command_begin(t, cmd)
    \/ \E t \in DOMAIN workers : execute_local_append(t)
    \/ \E t \in DOMAIN workers : execute_local_apply(t)
    \/ \E t \in DOMAIN workers : maybe_snapshot_count(t)
    \/ \E t \in DOMAIN workers : maybe_snapshot_seq(t)
    \/ \E t \in DOMAIN workers : maybe_snapshot_save(t)
    \/ Restart

BootstrapInit == ExtIdle /\ StoreIdle /\ ClusterIdle /\ WalFileIdle /\ NodeStart({{1}})

SpecBootstrap == BootstrapInit /\ [][BootstrapNext]_vars

\* One thread that takes RSET, RDEL and RGET commands one after the other.
ReplicaNext ==
    \/ \E t \in DOMAIN workers, cmd \in ReplicaCommands : handle_command_begin(t, cmd)
    \/ \E t \in DOMAIN workers : execute_local_append(t)
    \/ \E t \in DOMAIN workers : execute_local_apply(t)
    \/ \E t \in DOMAIN workers : maybe_snapshot_count(t)
    \/ \E t \in DOMAIN workers : maybe_snapshot_seq(t)
    \/ \E t \in DOMAIN workers : maybe_snapshot_save(t)
    \/ \E t \in DOMAIN workers, key \in StoreKeys : handle_command_rget(t, key)

ReplicaInit == ExtIdle /\ StoreIdle /\ ClusterIdle /\ WalFileIdle /\ NodeStart({{1}})

SpecReplica == ReplicaInit /\ [][ReplicaNext]_vars

(***************************************************************************)
(* The wire protocol on bytes.  A buffer is a sequence of byte values; the *)
(* C++ index i is element i + 1.  Numbers travel as ASCII decimals.        *)
(***************************************************************************)
SP == 32
NL == 10
DIGIT_0 == 48

WordPING == <<80, 73, 78, 71>>
WordGET  == <<71, 69, 84>>
WordDEL  == <<68, 69, 76>>
WordSET  == <<83, 69, 84>>
WordFWD  == <<70, 87, 68>>
WordRGET == <<82, 71, 69, 84>>
WordRSET == <<82, 83, 69, 84>>
WordRDEL == <<82, 68, 69, 76>>

\* body(v) for the value v of e, with e evaluated once.
Bound(e, body(_)) == CHOOSE result \in {body(v) : v \in {e}} : TRUE

U32_MAX_DIGITS == <<4, 2, 9, 4, 9, 6, 7, 2, 9, 5>>
U64_MAX_DIGITS == <<1, 8, 4, 4, 6, 7, 4, 4, 0, 7, 3, 7, 0, 9, 5, 5, 1, 6, 1, 5>>

RECURSIVE to_string(_)
\* std::to_string of an unsigned number.
to_string(n) ==
    IF n < 10 THEN <<DIGIT_0 + n>>
    ELSE Append(to_string(n \div 10), DIGIT_0 + (n % 10))

RECURSIVE DigitsValue(_, _)
DigitsValue(digits, acc) ==
    IF digits = <<>> THEN acc
    ELSE DigitsValue(Tail(digits), acc * 10 + Head(digits))

RECURSIVE StripZeros(_)
StripZeros(digits) ==
    IF digits # <<>> /\ Head(digits) = 0 THEN StripZeros(Tail(digits)) ELSE digits

RECURSIVE DigitsLeq(_, _)
\* a <= b for two digit strings of the same length.
DigitsLeq(a, b) ==
    \/ a = <<>>
    \/ Head(a) < Head(b)
    \/ Head(a) = Head(b) /\ DigitsLeq(Tail(a), Tail(b))

\* std::from_chars on a run of decimal digits for an unsigned type whose
\* largest value is written `max`: the value, or result_out_of_range.
from_chars(chars, max) ==
    LET digits == StripZeros([i \in 1..Len(chars) |-> chars[i] - DIGIT_0])
        fits   == \/ Len(digits) < Len(max)
                  \/ Len(digits) = Len(max) /\ DigitsLeq(digits, max)
    IN  IF chars = <<>> THEN [ok |-> FALSE, out |-> 0]
        ELSE IF ~fits THEN [ok |-> FALSE, out |-> 0]
        ELSE [ok |-> TRUE, out |-> DigitsValue(digits, 0)]

IsDigit(b) == b >= DIGIT_0 /\ b <= DIGIT_0 + 9

consume_space(data, end, pos) ==
    IF pos >= end \/ data[pos + 1] # SP
    THEN [ok |-> FALSE, pos |-> pos]
    ELSE [ok |-> TRUE, pos |-> pos + 1]

RECURSIVE DigitsEnd(_, _, _)
\* while (pos < end && data[pos] >= '0' && data[pos] <= '9') ++pos;
DigitsEnd(data, end, pos) ==
    IF pos < end /\ IsDigit(data[pos + 1]) THEN DigitsEnd(data, end, pos + 1) ELSE pos

parse_unsigned(data, end, pos, max) ==
    IF pos >= end THEN [ok |-> FALSE, pos |-> pos, out |-> 0]
    ELSE Bound(DigitsEnd(data, end, pos), LAMBDA stop :
         IF stop = pos THEN [ok |-> FALSE, pos |-> stop, out |-> 0]
         ELSE Bound(from_chars(SubSeq(data, pos + 1, stop), max), LAMBDA r :
              [ok |-> r.ok, pos |-> stop, out |-> r.out]))

parse_u32(data, end, pos) == parse_unsigned(data, end, pos, U32_MAX_DIGITS)

parse_u64(data, end, pos) == parse_unsigned(data, end, pos, U64_MAX_DIGITS)

read_bytes(data, end, pos, count) ==
    IF pos + count > end THEN [ok |-> FALSE, pos |-> pos, out |-> <<>>]
    ELSE [ok |-> TRUE, pos |-> pos + count, out |-> SubSeq(data, pos + 1, pos + count)]

\* Command{}: the first enumerator, empty strings, zeros, hops_remaining = 2.
WireCommand(type, key, value, timestamp_ms, node_id, hops_remaining, inner_line) ==
    [type |-> type, key |-> key, value |-> value, timestamp_ms |-> timestamp_ms,
     node_id |-> node_id, hops_remaining |-> hops_remaining, inner_line |-> inner_line]

DefaultCommand == WireCommand("SET", <<>>, <<>>, 0, 0, 2, <<>>)

ParseResult(status, command, bytes_consumed, error_msg) ==
    [status |-> status, command |-> command, bytes_consumed |-> bytes_consumed,
     error_msg |-> error_msg]

\* The index of the last byte b in data[from .. end), or -1.
memchr_last(data, from, end, b) ==
    LET hits == {i \in from..(end - 1) : data[i + 1] = b} IN
    IF hits = {} THEN -1 ELSE CHOOSE i \in hits : \A j \in hits : i >= j

\* std::memchr: the C++ index of the first byte b in data[from .. end), or -1.
memchr(data, from, end, b) ==
    LET hits == {i \in from..(end - 1) : data[i + 1] = b} IN
    IF hits = {} THEN -1 ELSE CHOOSE i \in hits : \A j \in hits : i <= j

\* consume_space, parse_u32, consume_space, read_bytes: a length and that many bytes.
\* `fail` names which of the four steps failed (0: none).
counted_bytes(data, end, pos) ==
    Bound(consume_space(data, end, pos), LAMBDA s1 :
    IF ~s1.ok THEN [fail |-> 1, pos |-> pos, out |-> <<>>]
    ELSE Bound(parse_u32(data, end, s1.pos), LAMBDA n :
    IF ~n.ok THEN [fail |-> 2, pos |-> n.pos, out |-> <<>>]
    ELSE Bound(consume_space(data, end, n.pos), LAMBDA s2 :
    IF ~s2.ok THEN [fail |-> 3, pos |-> n.pos, out |-> <<>>]
    ELSE Bound(read_bytes(data, end, s2.pos, n.out), LAMBDA b :
    IF ~b.ok THEN [fail |-> 4, pos |-> s2.pos, out |-> <<>>]
    ELSE [fail |-> 0, pos |-> b.pos, out |-> b.out]))))

\* consume_space, parse_u64, consume_space, parse_u32: a version at the end of a frame.
version_fields(data, end, pos) ==
    Bound(consume_space(data, end, pos), LAMBDA s1 :
    IF ~s1.ok THEN [fail |-> 1, pos |-> pos, timestamp_ms |-> 0, node_id |-> 0]
    ELSE Bound(parse_u64(data, end, s1.pos), LAMBDA ts :
    IF ~ts.ok THEN [fail |-> 2, pos |-> ts.pos, timestamp_ms |-> 0, node_id |-> 0]
    ELSE Bound(consume_space(data, end, ts.pos), LAMBDA s2 :
    IF ~s2.ok THEN [fail |-> 3, pos |-> ts.pos, timestamp_ms |-> 0, node_id |-> 0]
    ELSE Bound(parse_u32(data, end, s2.pos), LAMBDA id :
    IF ~id.ok THEN [fail |-> 4, pos |-> id.pos, timestamp_ms |-> 0, node_id |-> 0]
    ELSE [fail |-> 0, pos |-> id.pos, timestamp_ms |-> ts.out, node_id |-> id.out]))))

KeyErrors(word) ==
    <<"expected space after " \o word, "invalid key_len",
      "expected space after key_len", "key shorter than key_len">>

ValueErrors ==
    <<"expected space after key", "invalid val_len",
      "expected space after val_len", "value shorter than val_len">>

VersionErrors(before) ==
    <<"expected space after " \o before, "invalid timestamp_ms",
      "expected space after timestamp_ms", "invalid node_id">>

\* try_parse behind the search for the newline: the frame is data[0 .. frame_end).
parse_frame(data, frame_end) ==
    LET total_size == frame_end + 1
        make_error(msg) == ParseResult("ERROR", DefaultCommand, total_size, msg)
        ok(cmd)    == ParseResult("OK", cmd, total_size, "")
    IN
    Bound(memchr(data, 0, frame_end, SP), LAMBDA sp :
    Bound(IF sp = -1 THEN frame_end ELSE sp, LAMBDA pos :
    Bound(SubSeq(data, 1, pos), LAMBDA cmd_word :
    IF cmd_word = WordPING THEN
        IF pos # frame_end THEN make_error("PING takes no arguments")
        ELSE ok([DefaultCommand EXCEPT !.type = "PING"])
    ELSE IF cmd_word = WordFWD THEN
        Bound(consume_space(data, frame_end, pos), LAMBDA s1 :
        IF ~s1.ok THEN make_error("expected space after FWD")
        ELSE Bound(parse_u32(data, frame_end, s1.pos), LAMBDA hops :
        IF ~hops.ok THEN make_error("invalid hops_remaining")
        ELSE Bound(consume_space(data, frame_end, hops.pos), LAMBDA s2 :
        IF ~s2.ok THEN make_error("expected space after hops")
        ELSE IF s2.pos >= frame_end THEN make_error("missing inner command")
        ELSE ok([DefaultCommand EXCEPT
                    !.type = "FWD", !.hops_remaining = hops.out,
                    !.inner_line = SubSeq(data, s2.pos + 1, frame_end)]))))
    ELSE IF cmd_word \notin {WordGET, WordDEL, WordRGET, WordSET, WordRSET, WordRDEL}
    THEN make_error("unknown command")
    ELSE
    Bound(counted_bytes(data, frame_end, pos), LAMBDA key :
    IF cmd_word \in {WordGET, WordDEL, WordRGET} THEN
        IF key.fail # 0
        THEN make_error(KeyErrors(IF cmd_word = WordRGET THEN "RGET" ELSE "command")[key.fail])
        ELSE IF key.pos # frame_end THEN make_error("trailing data after key")
        ELSE ok([DefaultCommand EXCEPT
                    !.type = IF cmd_word = WordGET THEN "GET"
                             ELSE IF cmd_word = WordDEL THEN "DEL" ELSE "RGET",
                    !.key = key.out])
    ELSE IF cmd_word = WordRDEL THEN
        IF key.fail # 0 THEN make_error(KeyErrors("RDEL")[key.fail])
        ELSE Bound(version_fields(data, frame_end, key.pos), LAMBDA ver :
        IF ver.fail # 0 THEN make_error(VersionErrors("key")[ver.fail])
        ELSE IF ver.pos # frame_end THEN make_error("trailing data after node_id")
        ELSE ok([DefaultCommand EXCEPT
                    !.type = "RDEL", !.key = key.out,
                    !.timestamp_ms = ver.timestamp_ms, !.node_id = ver.node_id]))
    ELSE IF key.fail # 0
    THEN make_error(KeyErrors(IF cmd_word = WordSET THEN "SET" ELSE "RSET")[key.fail])
    ELSE
    Bound(counted_bytes(data, frame_end, key.pos), LAMBDA val :
    IF val.fail # 0 THEN make_error(ValueErrors[val.fail])
    ELSE IF cmd_word = WordSET THEN
        IF val.pos # frame_end THEN make_error("trailing data after value")
        ELSE ok([DefaultCommand EXCEPT !.type = "SET", !.key = key.out, !.value = val.out])
    ELSE
        Bound(version_fields(data, frame_end, val.pos), LAMBDA ver :
        IF ver.fail # 0 THEN make_error(VersionErrors("value")[ver.fail])
        ELSE IF ver.pos # frame_end THEN make_error("trailing data after node_id")
        ELSE ok([DefaultCommand EXCEPT
                    !.type = "RSET", !.key = key.out, !.value = val.out,
                    !.timestamp_ms = ver.timestamp_ms, !.node_id = ver.node_id])))))))

try_parse(data) ==
    Bound(data, LAMBDA buf :
    Bound(memchr(buf, 0, Len(buf), NL), LAMBDA nl :
    IF nl = -1 THEN ParseResult("INCOMPLETE", DefaultCommand, 0, "")
    ELSE parse_frame(buf, nl)))

\* The frame of a command without its newline, as the header comment of
\* try_parse, format_forward and the coordinator's senders write it.
wire_line(cmd) ==
    LET key == to_string(Len(cmd.key)) \o <<SP>> \o cmd.key
        val == to_string(Len(cmd.value)) \o <<SP>> \o cmd.value
        ver == to_string(cmd.timestamp_ms) \o <<SP>> \o to_string(cmd.node_id)
    IN  CASE cmd.type = "PING" -> WordPING
          [] cmd.type = "GET"  -> WordGET \o <<SP>> \o key
          [] cmd.type = "DEL"  -> WordDEL \o <<SP>> \o key
          [] cmd.type = "SET"  -> WordSET \o <<SP>> \o key \o <<SP>> \o val
          [] cmd.type = "RGET" -> WordRGET \o <<SP>> \o key
          [] cmd.type = "RSET" -> WordRSET \o <<SP>> \o key \o <<SP>> \o val \o <<SP>> \o ver
          [] cmd.type = "RDEL" -> WordRDEL \o <<SP>> \o key \o <<SP>> \o ver
          [] cmd.type = "FWD"  -> WordFWD \o <<SP>> \o to_string(cmd.hops_remaining)
                                          \o <<SP>> \o cmd.inner_line

format_forward(hops, inner_line) ==
    WordFWD \o <<SP>> \o to_string(hops) \o <<SP>> \o inner_line \o <<NL>>

(***************************************************************************)
(* handle_command on a FWD command.  The keys and values of the cluster    *)
(* specifications are names; Text gives the bytes of each on the wire.     *)
(***************************************************************************)
MaxForwards == 2

Text == ("" :> <<>>) @@ ("k" :> <<107>>) @@ ("a" :> <<97>>) @@ ("b" :> <<98>>)

NameOf(bytes) == CHOOSE name \in DOMAIN Text : Text[name] = bytes

\* The Command struct of a parsed frame, with names for its key and value.
LocalCommand(cmd) ==
    Command(cmd.type, NameOf(cmd.key), NameOf(cmd.value), cmd.timestamp_ms, cmd.node_id)

\* Inner lines: "SET 1 k 1 a", "SET 1 k 1 b", "DEL 1 k", "GET 1 k", "PING",
\* "RSET 1 k 1 a 1 2", "RGET 1 k", "FWD 1 PING", and the malformed "GARBAGE",
\* "SET 1 k", "GET 5 k".
InnerLines ==
    {wire_line(WireCommand("SET", Text["k"], Text[v], 0, 0, 2, <<>>)) : v \in {"a", "b"}}
    \cup {wire_line(WireCommand(type, Text["k"], <<>>, 0, 0, 2, <<>>)) :
             type \in {"DEL", "GET", "RGET", "PING"}}
    \cup {wire_line(WireCommand("RSET", Text["k"], Text["a"], 1, 2, 2, <<>>)),
          wire_line(WireCommand("FWD", <<>>, <<>>, 0, 0, 1, WordPING)),
          <<71, 65, 82, 66, 65, 71, 69>>,
          <<83, 69, 84, 32, 49, 32, 107>>,
          <<71, 69, 84, 32, 53, 32, 107>>}

\* handle_command, FWD branch, without the test of the hop counter.
handle_forward_unchecked(s, hops_remaining, inner_line, ts, self) ==
    Bound(try_parse(inner_line \o <<NL>>), LAMBDA inner_result :
    IF inner_result.status # "OK"
    THEN [resp |-> format_error("MALFORMED_FWD"), state |-> s]
    ELSE execute_local(s, LocalCommand(inner_result.command), ts, self))

\* handle_command, FWD branch; ts is what now_ms() gives execute_local.
handle_forward(s, hops_remaining, inner_line, ts, self) ==
    IF hops_remaining = 0
    THEN [resp |-> format_error("ROUTING_LOOP"), state |-> s]
    ELSE Bound(try_parse(inner_line \o <<NL>>), LAMBDA inner_result :
         IF inner_result.status # "OK"
         THEN [resp |-> format_error("MALFORMED_FWD"), state |-> s]
         ELSE execute_local(s, LocalCommand(inner_result.command), ts, self))

\* Node c takes a FWD command.
handle_command_fwd(c) ==
    /\ Len(forwards) < MaxForwards
    /\ \E hops_remaining \in 0..2, inner_line \in InnerLines, now \in clock[c]..MaxClock :
        \E r \in {handle_forward(NodeState(c), hops_remaining, inner_line, now, c)} :
        /\ clock' = [clock EXCEPT ![c] = now]
        /\ ApplyNode(c, r.state)
        /\ forwards' = Append(forwards,
               [coord |-> c, hops_remaining |-> hops_remaining,
                inner_line |-> inner_line, now |-> now, resp |-> r.resp])
        /\ UNCHANGED <<storeVars, diskVars, configVars, hints, callVars, historyVars,
                       wireVars, snapFileVars, hintDirVars, ring_call, poolVars, wal_batch, lateVars>>

ForwardNext == \E c \in {1, 2} : handle_command_fwd(c)

ForwardInit ==
    /\ StoreIdle /\ DiskIdle
    /\ WireIdle /\ SnapFileIdle /\ HintDirIdle /\ RingCallIdle /\ PoolIdle /\ BatchIdle
    /\ LateIdle
    /\ forwards = <<>>
    /\ ClusterStart({{1, 2, 3}}, {q \in QuorumChoices : q.replication_factor = 3},
                    {EmptyWal, NoWal})

SpecForward == ForwardInit /\ [][ForwardNext]_vars

(***************************************************************************)
(* snapshot.cpp on bytes.  An ifstream is [data, pos, good]; a read that   *)
(* reaches the end of the file copies what is there, leaves the rest of    *)
(* the buffer as it was and clears good; a read on a stream that is not    *)
(* good copies nothing.                                                    *)
(***************************************************************************)
MAGIC == <<68, 75, 86, 83>>

\* Sequence numbers given to save; 300 takes two bytes.
SnapSeqs == {0, 1, 300}

\* The entries a key of the saved store can hold.
SavedEntries ==
    {Absent,
     ValueEntry(FALSE, "a", Version(1, 1)),
     ValueEntry(FALSE, "b", Version(2, 1)),
     ValueEntry(FALSE, "", Version(1, 2)),
     ValueEntry(TRUE, "", Version(2, 2))}

KeyText == ("k1" :> <<107, 49>>) @@ ("k2" :> <<107, 50>>)

KeyNameOf(bytes) == CHOOSE name \in DOMAIN KeyText : KeyText[name] = bytes

\* One entry with the tombstone byte left 0.
save_entry_no_tombstone(key, entry) ==
    <<0>>
    \o write_le(Len(KeyText[key]), 4) \o KeyText[key]
    \o write_le(Len(Text[entry.value]), 4) \o Text[entry.value]
    \o write_u64(entry.version.timestamp_ms)
    \o write_le(entry.version.node_id, 4)

\* Snapshot::save, the body of the loop over the entries.
save_entry(key, entry) ==
    <<IF entry.is_tombstone THEN 1 ELSE 0>>
    \o write_le(Len(KeyText[key]), 4) \o KeyText[key]
    \o write_le(Len(Text[entry.value]), 4) \o Text[entry.value]
    \o write_u64(entry.version.timestamp_ms)
    \o write_le(entry.version.node_id, 4)

RECURSIVE save_entries(_, _)
save_entries(entries, i) ==
    IF i > Len(entries) THEN <<>>
    ELSE save_entry(entries[i][1], entries[i][2]) \o save_entries(entries, i + 1)

\* Snapshot::save: the bytes of the file; entries is all_entries() in the
\* order the engine returned it.
Snapshot_save_bytes(entries, seq_no) ==
    MAGIC \o write_u64(seq_no) \o write_le(Len(entries), 4) \o save_entries(entries, 1)

\* in.read(buf, n): [in, buf] with buf the n bytes of the buffer afterwards,
\* which were `init` before.
stream_read(in, n, init) ==
    LET avail == Len(in.data) - in.pos IN
    IF ~in.good THEN [in |-> in, buf |-> init]
    ELSE IF avail >= n
    THEN [in |-> [in EXCEPT !.pos = @ + n], buf |-> SubBytes(in.data, in.pos, n)]
    ELSE [in |-> [in EXCEPT !.pos = Len(in.data), !.good = FALSE],
          buf |-> [i \in 1..n |-> IF i <= avail THEN in.data[in.pos + i] ELSE init[i]]]

Zeros(n) == [i \in 1..n |-> 0]

\* read_u32 / read_u64 / the tombstone byte: v = 0, then in.read into v.
stream_read_le(in, n) ==
    LET r == stream_read(in, n, Zeros(n)) IN [in |-> r.in, v |-> read_le(r.buf, 0, n)]

NotPresent == [present |-> FALSE, seq_no |-> 0, entries |-> <<>>]

RECURSIVE load_loop(_, _, _, _, _)
\* Snapshot::load, the loop over the entries.
load_loop(in, i, count, seq_no, entries) ==
    IF i >= count THEN [present |-> TRUE, seq_no |-> seq_no, entries |-> entries]
    ELSE LET tombstone == stream_read_le(in, 1)
             key_len   == stream_read_le(tombstone.in, 4)
             key       == stream_read(key_len.in, key_len.v, Zeros(key_len.v))
             val_len   == stream_read_le(key.in, 4)
             value     == stream_read(val_len.in, val_len.v, Zeros(val_len.v))
             timestamp_ms == stream_read_le(value.in, 8)
             node_id   == stream_read_le(timestamp_ms.in, 4)
         IN  IF ~node_id.in.good THEN NotPresent
             ELSE load_loop(node_id.in, i + 1, count, seq_no,
                      Append(entries,
                          [key |-> key.buf, is_tombstone |-> tombstone.v # 0,
                           value |-> value.buf, timestamp_ms |-> timestamp_ms.v,
                           node_id |-> node_id.v]))

\* Snapshot::load.  magic[4] is not initialised: after a short read the
\* bytes not read are indeterminate, and `indeterminate` is what they hold.
Snapshot_load(data, indeterminate) ==
    LET in0   == [data |-> data, pos |-> 0, good |-> TRUE]
        magic == stream_read(in0, 4, indeterminate)
        seq   == stream_read_le(magic.in, 8)
        count == stream_read_le(seq.in, 4)
    IN  IF magic.buf # MAGIC THEN NotPresent
        ELSE load_loop(count.in, 0, count.v, seq.v, <<>>)

\* What the stack can hold where magic[4] lies: the magic itself, or not.
IndeterminateBytes == {MAGIC, Zeros(4)}

\* A loaded entry as the pair all_entries() gives.
LoadedEntry(e) ==
    <<KeyNameOf(e.key),
      ValueEntry(e.is_tombstone, NameOf(e.value), Version(e.timestamp_ms, e.node_id))>>

\* The orders all_entries() can return a set of entries in.
Orders(S) ==
    {order \in [1..Cardinality(S) -> S] :
        \A i, j \in 1..Cardinality(S) : i # j => order[i] # order[j]}

NotSaved == [seq_no |-> 0, entries |-> {}, saved |-> FALSE, intact |-> TRUE, bytes |-> <<>>]

NotLoaded == [done |-> FALSE, result |-> NotPresent]

\* Snapshot::save(engine, seq_no, dir).
Snapshot_save_file ==
    /\ ~snap_saved.saved
    /\ \E seq_no \in SnapSeqs, order \in Orders(StorageEngine_all_entries(engine)) :
          LET bytes == Snapshot_save_bytes(order, seq_no) IN
          /\ snap_saved' = [seq_no |-> seq_no, entries |-> StorageEngine_all_entries(engine),
                            saved |-> TRUE, intact |-> TRUE, bytes |-> bytes]
          /\ snap_file' = bytes
    /\ UNCHANGED <<snap_loaded, storeVars, clusterVars, diskVars, wireVars, forwards,
                   hintDirVars, ring_call, poolVars, wal_batch, lateVars>>

\* The file loses its tail: a proper prefix is left.
TruncateSnapshot ==
    /\ snap_saved.saved /\ snap_saved.intact /\ ~snap_loaded.done
    /\ \E n \in 0..(Len(snap_file) - 1) : snap_file' = SubSeq(snap_file, 1, n)
    /\ snap_saved' = [snap_saved EXCEPT !.intact = FALSE]
    /\ UNCHANGED <<snap_loaded, storeVars, clusterVars, diskVars, wireVars, forwards,
                   hintDirVars, ring_call, poolVars, wal_batch, lateVars>>

\* A file of the same length that does not begin with the magic bytes.
WrongMagic ==
    /\ snap_saved.saved /\ snap_saved.intact /\ ~snap_loaded.done
    /\ \E i \in 1..4 : snap_file' = [snap_file EXCEPT ![i] = 0]
    /\ snap_saved' = [snap_saved EXCEPT !.intact = FALSE]
    /\ UNCHANGED <<snap_loaded, storeVars, clusterVars, diskVars, wireVars, forwards,
                   hintDirVars, ring_call, poolVars, wal_batch, lateVars>>

\* Snapshot::load(path) on the file as it is now.
Snapshot_load_file ==
    /\ snap_saved.saved /\ ~snap_loaded.done
    /\ \E indeterminate \in IndeterminateBytes :
          snap_loaded' = [done |-> TRUE, result |-> Snapshot_load(snap_file, indeterminate)]
    /\ UNCHANGED <<snap_saved, snap_file, storeVars, clusterVars, diskVars, wireVars,
                   forwards, hintDirVars, ring_call, poolVars, wal_batch, lateVars>>

SnapFileNext ==
    \/ Snapshot_save_file
    \/ TruncateSnapshot
    \/ WrongMagic
    \/ Snapshot_load_file

SnapFileInit ==
    /\ engine \in [StoreKeys -> SavedEntries]
    /\ max_called = [k \in StoreKeys |-> [any |-> FALSE, version |-> ZeroVersion]]
    /\ last_call = NoCall
    /\ ClusterIdle /\ DiskIdle
    /\ WireIdle /\ ForwardIdle /\ HintDirIdle /\ RingCallIdle /\ PoolIdle /\ BatchIdle
    /\ LateIdle
    /\ snap_saved = NotSaved
    /\ snap_file = <<>>
    /\ snap_loaded = NotLoaded

SpecSnapFile == SnapFileInit /\ [][SnapFileNext]_vars

(***************************************************************************)
(* hint_store.cpp with a backing directory.  hint_dir maps a target to the *)
(* bytes of hints_<target>.dat, hint_mem is hints_ of the open HintStore.  *)
(***************************************************************************)
MaxHintStores == 3

AddressBytes == [n \in Nodes |-> <<49, 48, 46, 48, 46, 48, 46, 48 + n, 58, 55, 48, 48, 49>>]

AddressNameOf(bytes) == AddressOf[CHOOSE n \in Nodes : AddressBytes[n] = bytes]

\* The hints a coordinator stores; 300 takes two bytes.
HintChoices ==
    {Hint(AddressOf[t], t, "k", value, is_del, version) :
        t \in {2, 3}, value \in {"", "a"}, is_del \in BOOLEAN,
        version \in {Version(1, 1), Version(300, 2)}}

write_str(bytes) == write_le(Len(bytes), 4) \o bytes

hint_record(hint) ==
    write_le(hint.target_node_id, 4)
    \o write_str(AddressBytes[NodeAt(hint.target_address)])
    \o write_str(Text[hint.key])
    \o write_str(Text[hint.value])
    \o write_u64(hint.version.timestamp_ms)
    \o write_le(hint.version.node_id, 4)
    \o <<IF hint.is_del THEN 1 ELSE 0>>

FileOf(dir, target_node_id) ==
    IF target_node_id \in DOMAIN dir THEN dir[target_node_id] ELSE <<>>

\* The file opened with ios::trunc: the record replaces what was there.
HintStore_append_to_disk_trunc(dir, hint) ==
    MapPut(dir, hint.target_node_id, hint_record(hint))

\* HintStore::append_to_disk: the file is opened with ios::app.
HintStore_append_to_disk(dir, hint) ==
    MapPut(dir, hint.target_node_id, FileOf(dir, hint.target_node_id) \o hint_record(hint))

\* read_str: [in, ok, s].
read_str(in) ==
    LET len == stream_read_le(in, 4)
        s   == stream_read(len.in, len.v, Zeros(len.v))
    IN  IF ~len.in.good THEN [in |-> len.in, ok |-> FALSE, s |-> <<>>]
        ELSE [in |-> s.in, ok |-> s.in.good, s |-> s.buf]

RECURSIVE load_file_loop(_, _)
\* HintStore::load_file, the loop; f.peek() is EOF at the end of the file.
load_file_loop(in, result) ==
    IF in.pos >= Len(in.data) THEN result
    ELSE LET target_node_id == stream_read_le(in, 4)
             target_address == read_str(target_node_id.in)
             key            == read_str(target_address.in)
             value          == read_str(key.in)
             timestamp_ms   == stream_read_le(value.in, 8)
             node_id        == stream_read_le(timestamp_ms.in, 4)
             is_del_byte    == stream_read_le(node_id.in, 1)
         IN  IF \/ ~target_node_id.in.good \/ ~target_address.ok \/ ~key.ok \/ ~value.ok
                \/ ~timestamp_ms.in.good \/ ~node_id.in.good \/ ~is_del_byte.in.good
             THEN result
             ELSE load_file_loop(is_del_byte.in,
                      Append(result,
                          Hint(AddressNameOf(target_address.s), target_node_id.v,
                               NameOf(key.s), NameOf(value.s), is_del_byte.v # 0,
                               Version(timestamp_ms.v, node_id.v))))

HintStore_load_file(bytes) ==
    load_file_loop([data |-> bytes, pos |-> 0, good |-> TRUE], <<>>)

RECURSIVE push_all(_, _, _)
push_all(h, loaded, i) ==
    IF i > Len(loaded) THEN h ELSE push_all(HintStore_store(h, loaded[i]), loaded, i + 1)

RECURSIVE load_files(_, _, _)
load_files(h, dir, files) ==
    IF files = {} THEN h
    ELSE LET f == CHOOSE f \in files : TRUE IN
         load_files(push_all(h, HintStore_load_file(dir[f]), 1), dir, files \ {f})

\* HintStore::load into an empty store; each hint goes to the vector of its
\* own target_node_id, so the order of the files does not matter.
HintStore_load(dir) == load_files(<<>>, dir, DOMAIN dir)

\* HintStore::store(hint) on a store with a hints_dir.
HintDir_store ==
    /\ hint_history.stores < MaxHintStores
    /\ \E hint \in HintChoices :
          /\ hint_mem' = HintStore_store(hint_mem, hint)
          /\ hint_dir' = HintStore_append_to_disk(hint_dir, hint)
          /\ hint_history' = [op |-> "store", target |-> hint.target_node_id,
                              before |-> hint_mem, stores |-> hint_history.stores + 1]
    /\ UNCHANGED <<hint_reloaded, storeVars, clusterVars, diskVars, wireVars, forwards,
                   snapFileVars, ring_call, poolVars, wal_batch, lateVars>>

\* HintStore::clear_hints_for(t): hints_.erase and std::filesystem::remove.
HintDir_clear_hints_for ==
    /\ \E t \in {2, 3} :
          /\ hint_history.op # "clear" \/ hint_history.target # t
          /\ hint_mem' = HintStore_clear_hints_for(hint_mem, t)
          /\ hint_dir' = [f \in DOMAIN hint_dir \ {t} |-> hint_dir[f]]
          /\ hint_history' = [hint_history EXCEPT !.op = "clear", !.target = t,
                                                  !.before = hint_mem]
    /\ UNCHANGED <<hint_reloaded, storeVars, clusterVars, diskVars, wireVars, forwards,
                   snapFileVars, ring_call, poolVars, wal_batch, lateVars>>

\* The process ends; a new HintStore on the same directory calls load().
HintDir_reopen ==
    /\ hint_history.op # "load"
    /\ hint_mem' = HintStore_load(hint_dir)
    /\ hint_history' = [hint_history EXCEPT !.op = "load", !.before = hint_mem]
    /\ hint_reloaded' = TRUE
    /\ UNCHANGED <<hint_dir, storeVars, clusterVars, diskVars, wireVars, forwards,
                   snapFileVars, ring_call, poolVars, wal_batch, lateVars>>

HintDirNext ==
    \/ HintDir_store
    \/ HintDir_clear_hints_for
    \/ HintDir_reopen

HintDirInit ==
    /\ StoreIdle /\ ClusterIdle /\ DiskIdle
    /\ WireIdle /\ ForwardIdle /\ SnapFileIdle /\ RingCallIdle /\ PoolIdle /\ BatchIdle
    /\ LateIdle
    /\ hint_dir = <<>>
    /\ hint_mem = <<>>
    /\ hint_history = [op |-> "none", target |-> 0, before |-> <<>>, stores |-> 0]
    /\ hint_reloaded = FALSE

SpecHintDir == HintDirInit /\ [][HintDirNext]_vars

(***************************************************************************)
(* A connection of the TCP server: the client writes frames to the stream, *)
(* handle_read appends what has arrived to read_buf and process_commands   *)
(* parses read_buf frame by frame.                                         *)
(***************************************************************************)
MaxFrames == 2

\* Keys on the wire: empty, one letter, and the newline byte.
WireKeys == {<<>>, <<107>>, <<NL>>}

\* Keys with values: both empty, a value with a space, and the newline byte
\* in the key or in the value.
WirePairs == {<< <<>>, <<>> >>, << <<107>>, <<97, SP>> >>,
              << <<NL>>, <<97, SP>> >>, << <<107>>, <<NL>> >>}

WireVersions == {<<12, 3>>}

\* The Command structs a client or a coordinator puts on the wire.
WellFormedCommands ==
    {[DefaultCommand EXCEPT !.type = "PING"]}
    \cup {[DefaultCommand EXCEPT !.type = "GET", !.key = k] : k \in WireKeys}
    \cup {[DefaultCommand EXCEPT !.type = t, !.key = k] :
             t \in {"DEL", "RGET"}, k \in WireKeys \ {<<>>}}
    \cup {[DefaultCommand EXCEPT !.type = "SET", !.key = kv[1], !.value = kv[2]] :
             kv \in WirePairs}
    \cup {[DefaultCommand EXCEPT !.type = "RSET", !.key = kv[1], !.value = kv[2],
                                 !.timestamp_ms = ver[1], !.node_id = ver[2]] :
             kv \in WirePairs, ver \in WireVersions}
    \cup {[DefaultCommand EXCEPT !.type = "RDEL", !.key = k,
                                 !.timestamp_ms = ver[1], !.node_id = ver[2]] :
             k \in WireKeys \ {<<>>}, ver \in WireVersions}
    \cup {[DefaultCommand EXCEPT !.type = "FWD", !.hops_remaining = h,
                                 !.inner_line = WordGET \o <<SP, DIGIT_0 + 1, SP, 107>>] :
             h \in {0, 2}}

\* Bytes a client can send that are no frame of a command.
RawFrames ==
    {<<NL>>,
     <<66, 79, 71, 85, 83, NL>>,
     WordPING \o <<SP, 120, NL>>,
     WordGET \o <<SP, DIGIT_0 + 5, SP, 107, NL>>,
     WordSET \o <<SP, DIGIT_0 + 1, SP, 107, NL>>,
     <<80, 73>>}

NoTryParse == [buf |-> <<>>, result |-> ParseResult("INCOMPLETE", DefaultCommand, 0, "")]

RECURSIVE process_commands(_, _, _)
\* TCPServer::process_commands: [read_buf, results, calls] when the loop ends;
\* results are the frames answered or dispatched, calls every try_parse call.
process_commands(buf, results, calls) ==
    IF buf = <<>> THEN [read_buf |-> buf, results |-> results, calls |-> calls]
    ELSE Bound(try_parse(buf), LAMBDA result :
         Bound(Append(calls, [buf |-> buf, result |-> result]), LAMBDA called :
         IF result.status = "INCOMPLETE"
         THEN [read_buf |-> buf, results |-> results, calls |-> called]
         ELSE Bound(SubSeq(buf, result.bytes_consumed + 1, Len(buf)), LAMBDA rest :
              Bound(Append(results, result), LAMBDA answered :
              process_commands(rest, answered, called)))))

\* The client writes the frame of a command and its newline.
Wire_send ==
    /\ Len(wire_sent) < MaxFrames
    /\ \E cmd \in WellFormedCommands :
          LET frame == wire_line(cmd) \o <<NL>> IN
          /\ wire_sent' = Append(wire_sent, [formed |-> TRUE, cmd |-> cmd, bytes |-> frame])
          /\ wire_bytes' = [wire_bytes EXCEPT !.stream = @ \o frame]
    /\ UNCHANGED <<read_buf, wire_parsed, storeVars, clusterVars, diskVars, forwards,
                   snapFileVars, hintDirVars, ring_call, poolVars, wal_batch, lateVars>>

\* The client writes other bytes.
Wire_send_raw ==
    /\ Len(wire_sent) < MaxFrames
    /\ \E frame \in RawFrames :
          /\ wire_sent' = Append(wire_sent,
                                 [formed |-> FALSE, cmd |-> DefaultCommand, bytes |-> frame])
          /\ wire_bytes' = [wire_bytes EXCEPT !.stream = @ \o frame]
    /\ UNCHANGED <<read_buf, wire_parsed, storeVars, clusterVars, diskVars, forwards,
                   snapFileVars, hintDirVars, ring_call, poolVars, wal_batch, lateVars>>

\* TCPServer::handle_read: n bytes have arrived; they are appended to
\* read_buf and process_commands runs.
handle_read ==
    /\ \E n \in 1..(Len(wire_bytes.stream) - wire_bytes.delivered) :
          \E buf \in {read_buf \o SubBytes(wire_bytes.stream, wire_bytes.delivered, n)} :
          \E done \in {process_commands(buf, wire_parsed.results, <<>>)} :
              /\ wire_bytes' = [wire_bytes EXCEPT !.delivered = @ + n,
                                                  !.reads = IF @ < 2 THEN @ + 1 ELSE @]
              /\ read_buf' = done.read_buf
              /\ wire_parsed' = [results |-> done.results, calls |-> done.calls]
    /\ UNCHANGED <<wire_sent, storeVars, clusterVars, diskVars, forwards,
                   snapFileVars, hintDirVars, ring_call, poolVars, wal_batch, lateVars>>

WireNext ==
    \/ Wire_send
    \/ Wire_send_raw
    \/ handle_read

WireInit ==
    /\ StoreIdle /\ ClusterIdle /\ DiskIdle
    /\ ForwardIdle /\ SnapFileIdle /\ HintDirIdle /\ RingCallIdle /\ PoolIdle /\ BatchIdle
    /\ LateIdle
    /\ wire_sent = <<>>
    /\ wire_bytes = [stream |-> <<>>, delivered |-> 0, reads |-> 0]
    /\ read_buf = <<>>
    /\ wire_parsed = [results |-> <<>>, calls |-> <<>>]

SpecWire == WireInit /\ [][WireNext]_vars

(***************************************************************************)
(* The reply to RGET on bytes: format_versioned_value on the replica and   *)
(* parse_versioned_response on the coordinator.                            *)
(***************************************************************************)
DOLLAR == 36
LETTER_V == 86

NotFoundBytes == <<45, 78, 79, 84, 95, 70, 79, 85, 78, 68, NL>>

\* Values a replica returns: empty, with spaces, with a newline, digits.
ReplyValues == {<<>>, <<97>>, <<SP>>, <<97, SP, 98>>, <<NL>>, <<SP, DIGIT_0 + 1, SP>>}

ReplyTimestamps == {0, 7, 1234567}

ReplyNodeIds == {0, 3, 42}

\* Replies that are no versioned value.
OtherReplies ==
    {NotFoundBytes,
     <<>>,
     <<43, 79, 75, NL>>,
     <<45, 69, 82, 82, SP, 120, NL>>,
     <<DOLLAR, DIGIT_0 + 1, SP, 97, NL>>,
     <<DOLLAR, LETTER_V>>,
     <<DOLLAR, LETTER_V, NL>>,
     <<DOLLAR, LETTER_V, 120, DIGIT_0 + 1, SP, 97, SP, DIGIT_0 + 1, SP, DIGIT_0 + 1, NL>>,
     <<SP, DOLLAR, LETTER_V, SP, DIGIT_0 + 1, SP, 97, SP, DIGIT_0 + 1, SP, DIGIT_0 + 1, NL>>}

\* The value written without its length.
format_versioned_value_unprefixed(value, timestamp_ms, node_id) ==
    <<DOLLAR, LETTER_V, SP>> \o value \o <<SP>>
    \o to_string(timestamp_ms) \o <<SP>> \o to_string(node_id) \o <<NL>>

format_versioned_value_bytes(value, timestamp_ms, node_id) ==
    <<DOLLAR, LETTER_V, SP>> \o to_string(Len(value)) \o <<SP>> \o value \o <<SP>>
    \o to_string(timestamp_ms) \o <<SP>> \o to_string(node_id) \o <<NL>>

\* std::from_chars(first, last, out) on data[first .. last): the leading
\* digits are converted, anything behind them is left alone.
from_chars_range(data, first, last, max) ==
    LET stop == DigitsEnd(data, last, first) IN
    IF stop = first THEN [ok |-> FALSE, out |-> 0]
    ELSE from_chars(SubSeq(data, first + 1, stop), max)

VersionedBytes(found, value, timestamp_ms, node_id) ==
    [found |-> found, value |-> value, timestamp_ms |-> timestamp_ms, node_id |-> node_id]

parse_versioned_response_bytes(resp) ==
    LET none    == VersionedBytes(FALSE, <<>>, 0, 0)
        p0      == 3
        end     == Len(resp) - 1
        sp1     == memchr(resp, p0, end, SP)
        val_len == from_chars_range(resp, p0, sp1, U32_MAX_DIGITS)
        p1      == sp1 + 1
        value   == SubSeq(resp, p1 + 1, p1 + val_len.out)
        p2      == p1 + val_len.out
        p3      == p2 + 1
        sp2     == memchr(resp, p3, end, SP)
        timestamp_ms == from_chars_range(resp, p3, sp2, U64_MAX_DIGITS)
        p4      == sp2 + 1
        node_id == from_chars_range(resp, p4, end, U32_MAX_DIGITS)
    IN  IF resp = NotFoundBytes THEN none
        ELSE IF Len(resp) < 4 \/ resp[1] # DOLLAR \/ resp[2] # LETTER_V \/ resp[3] # SP
        THEN none
        ELSE IF p0 >= end THEN none
        ELSE IF sp1 = -1 THEN none
        ELSE IF ~val_len.ok THEN none
        ELSE IF p1 + val_len.out > end THEN none
        ELSE IF p2 >= end \/ resp[p2 + 1] # SP THEN [none EXCEPT !.value = value]
        ELSE IF sp2 = -1 THEN [none EXCEPT !.value = value]
        ELSE IF ~timestamp_ms.ok THEN [none EXCEPT !.value = value]
        ELSE IF ~node_id.ok
        THEN [none EXCEPT !.value = value, !.timestamp_ms = timestamp_ms.out]
        ELSE VersionedBytes(TRUE, value, timestamp_ms.out, node_id.out)

NoReply == [found |-> FALSE, value |-> <<>>, timestamp_ms |-> 0, node_id |-> 0,
            parsed |-> FALSE]

\* The replica answers RGET for a key it holds.
Reply_versioned_value ==
    /\ wire_bytes = <<>> /\ wire_sent.kind = "value"
    /\ wire_bytes' = <<format_versioned_value_bytes(wire_sent.value, wire_sent.timestamp_ms,
                                                    wire_sent.node_id)>>
    /\ UNCHANGED <<wire_sent, read_buf, wire_parsed, storeVars, clusterVars, diskVars,
                   forwards, snapFileVars, hintDirVars, ring_call, poolVars, wal_batch, lateVars>>

\* The replica answers something else.
Reply_other ==
    /\ wire_bytes = <<>> /\ wire_sent.kind = "other"
    /\ \E resp \in OtherReplies : wire_bytes' = <<resp>>
    /\ UNCHANGED <<wire_sent, read_buf, wire_parsed, storeVars, clusterVars, diskVars,
                   forwards, snapFileVars, hintDirVars, ring_call, poolVars, wal_batch, lateVars>>

\* The coordinator parses the reply.
Reply_parse ==
    /\ wire_bytes # <<>> /\ ~wire_parsed.parsed
    /\ wire_parsed' = [parsed |-> TRUE] @@ parse_versioned_response_bytes(wire_bytes[1])
    /\ UNCHANGED <<wire_sent, wire_bytes, read_buf, storeVars, clusterVars, diskVars,
                   forwards, snapFileVars, hintDirVars, ring_call, poolVars, wal_batch, lateVars>>

ReplyNext ==
    \/ Reply_versioned_value
    \/ Reply_other
    \/ Reply_parse

ReplyInit ==
    /\ StoreIdle /\ ClusterIdle /\ DiskIdle
    /\ ForwardIdle /\ SnapFileIdle /\ HintDirIdle /\ RingCallIdle /\ PoolIdle /\ BatchIdle
    /\ LateIdle
    /\ wire_sent \in
          {[kind |-> "value", value |-> v, timestamp_ms |-> ts, node_id |-> id] :
              v \in ReplyValues, ts \in ReplyTimestamps, id \in ReplyNodeIds}
          \cup {[kind |-> "other", value |-> <<>>, timestamp_ms |-> 0, node_id |-> 0]}
    /\ wire_bytes = <<>>
    /\ read_buf = <<>>
    /\ wire_parsed = NoReply

SpecReply == ReplyInit /\ [][ReplyNext]_vars

(***************************************************************************)
(* The HashRing on its own: nodes are added with any number of virtual     *)
(* nodes and removed, and keys are looked up in between.                   *)
(***************************************************************************)
MaxCount == 4

NoNode == [present |-> FALSE, node_id |-> 0, address |-> ""]

\* HashRing::get_node, with the hash of the key in place of the key.
get_node(r, hash) ==
    IF DOMAIN r.ring_ = {} THEN NoNode
    ELSE LET it == upper_bound_wrap(r.ring_, hash) IN
         [present |-> TRUE, node_id |-> r.ring_[it].node_id, address |-> r.ring_[it].address]

remove_node(r, node_id) ==
    [ring_ |-> [p \in {q \in DOMAIN r.ring_ : r.ring_[q].node_id # node_id} |-> r.ring_[p]],
     nodes_ |-> [n \in DOMAIN r.nodes_ \ {node_id} |-> r.nodes_[n]]]

NoRingCall == [called |-> FALSE, hash |-> 0, count |-> 0, node |-> NoNode,
               result |-> <<>>, repeated |-> FALSE, before |-> <<>>]

HashRing_add_node ==
    /\ \E node_id \in Nodes, num_vnodes \in 0..NumVnodes :
          ring' = add_node(ring, node_id, AddressOf[node_id], num_vnodes)
    /\ ring_call' = NoRingCall
    /\ UNCHANGED <<key_hash, quorum, nodeVars, callVars, historyVars, storeVars, diskVars,
                   wireVars, forwards, snapFileVars, hintDirVars, poolVars, wal_batch, lateVars>>

HashRing_remove_node ==
    /\ \E node_id \in DOMAIN ring.nodes_ : ring' = remove_node(ring, node_id)
    /\ ring_call' = NoRingCall
    /\ UNCHANGED <<key_hash, quorum, nodeVars, callVars, historyVars, storeVars, diskVars,
                   wireVars, forwards, snapFileVars, hintDirVars, poolVars, wal_batch, lateVars>>

\* get_node(key) and get_replica_nodes(key, count) for a key hashing to `hash`.
HashRing_lookup ==
    /\ \E hash \in 0..(RingSize - 1), count \in 0..MaxCount :
          ring_call' =
              [called |-> TRUE, hash |-> hash, count |-> count,
               node |-> get_node(ring, hash),
               result |-> get_replica_nodes(ring, hash, count),
               repeated |-> ring_call.called /\ ring_call.hash = hash
                            /\ ring_call.count = count,
               before |-> ring_call.result]
    /\ UNCHANGED <<clusterVars, storeVars, diskVars, wireVars, forwards, snapFileVars,
                   hintDirVars, poolVars, wal_batch, lateVars>>

RingNext ==
    \/ HashRing_add_node
    \/ HashRing_remove_node
    \/ HashRing_lookup

RingInit ==
    /\ StoreIdle /\ ClusterIdle /\ DiskIdle
    /\ WireIdle /\ ForwardIdle /\ SnapFileIdle /\ HintDirIdle /\ PoolIdle /\ BatchIdle
    /\ LateIdle
    /\ ring_call = NoRingCall

SpecRing == RingInit /\ [][RingNext]_vars

(***************************************************************************)
(* connection_pool.cpp.  pools_ maps an address to the idle fds kept for   *)
(* it, pool_held are the connections callers hold, pool_fds the open fds.  *)
(***************************************************************************)
\* max_per_peer_ (4 by default in the code).
max_per_peer_ == 2

\* Sockets the process can have open at once.
MaxFds == 4

PeerAddresses == {AddressOf[2], AddressOf[3]}

PooledConnection(fd, address) == [fd |-> fd, address |-> address]

IdleOf(pools, address) == IF address \in DOMAIN pools THEN pools[address] ELSE <<>>

\* release that keeps every connection.
ConnectionPool_release_uncapped(pools, conn) ==
    [pools_ |-> MapPut(pools, conn.address, Append(IdleOf(pools, conn.address), conn.fd)),
     closed |-> {}]

\* ConnectionPool::release: [pools_, closed]; pools_[conn.address] creates the entry.
ConnectionPool_release(pools, conn) ==
    LET pool == IdleOf(pools, conn.address) IN
    IF Len(pool) < max_per_peer_
    THEN [pools_ |-> MapPut(pools, conn.address, Append(pool, conn.fd)), closed |-> {}]
    ELSE [pools_ |-> MapPut(pools, conn.address, pool), closed |-> {conn.fd}]

\* ConnectionPool::acquire; connected is the fd connect_to returned, -1 on failure.
ConnectionPool_acquire(pools, address, connected) ==
    LET pool == IdleOf(pools, address) IN
    IF address \in DOMAIN pools /\ pool # <<>>
    THEN [pools_ |-> [pools EXCEPT ![address] = SubSeq(pool, 1, Len(pool) - 1)],
          present |-> TRUE, conn |-> PooledConnection(pool[Len(pool)], address),
          opened |-> {}]
    ELSE IF connected < 0
    THEN [pools_ |-> pools, present |-> FALSE, conn |-> PooledConnection(-1, address),
          opened |-> {}]
    ELSE [pools_ |-> pools, present |-> TRUE, conn |-> PooledConnection(connected, address),
          opened |-> {connected}]

\* ConnectionPool::close_all: [pools_, closed].
ConnectionPool_close_all(pools) ==
    [pools_ |-> <<>>,
     closed |-> UNION {{pools[a][i] : i \in 1..Len(pools[a])} : a \in DOMAIN pools}]

NoPoolCall == [op |-> "none", address |-> "", present |-> FALSE, fd |-> -1,
               before |-> <<>>, open_before |-> {}]

Pool_acquire ==
    /\ \E address \in PeerAddresses,
          connected \in {-1} \cup {fd \in 1..MaxFds :
                                      /\ fd \notin pool_fds
                                      /\ \A lower \in 1..(fd - 1) : lower \in pool_fds} :
          LET r == ConnectionPool_acquire(pools_, address, connected) IN
          /\ pools_' = r.pools_
          /\ pool_fds' = pool_fds \cup r.opened
          /\ pool_held' = IF r.present THEN pool_held \cup {r.conn} ELSE pool_held
          /\ pool_call' = [op |-> "acquire", address |-> address, present |-> r.present,
                           fd |-> r.conn.fd, before |-> pools_, open_before |-> pool_fds]
    /\ UNCHANGED <<storeVars, clusterVars, diskVars, wireVars, forwards, snapFileVars,
                   hintDirVars, ring_call, wal_batch, lateVars>>

Pool_release ==
    /\ \E conn \in pool_held :
          LET r == ConnectionPool_release(pools_, conn) IN
          /\ pools_' = r.pools_
          /\ pool_fds' = pool_fds \ r.closed
          /\ pool_held' = pool_held \ {conn}
          /\ pool_call' = [op |-> "release", address |-> conn.address, present |-> TRUE,
                           fd |-> conn.fd, before |-> pools_, open_before |-> pool_fds]
    /\ UNCHANGED <<storeVars, clusterVars, diskVars, wireVars, forwards, snapFileVars,
                   hintDirVars, ring_call, wal_batch, lateVars>>

Pool_close_all ==
    /\ pool_call.op # "close_all"
    /\ LET r == ConnectionPool_close_all(pools_) IN
          /\ pools_' = r.pools_
          /\ pool_fds' = pool_fds \ r.closed
          /\ pool_call' = [op |-> "close_all", address |-> "", present |-> FALSE,
                           fd |-> -1, before |-> pools_, open_before |-> pool_fds]
    /\ UNCHANGED <<pool_held, storeVars, clusterVars, diskVars, wireVars, forwards,
                   snapFileVars, hintDirVars, ring_call, wal_batch, lateVars>>

PoolNext ==
    \/ Pool_acquire
    \/ Pool_release
    \/ Pool_close_all

PoolInit ==
    /\ StoreIdle /\ ClusterIdle /\ DiskIdle
    /\ WireIdle /\ ForwardIdle /\ SnapFileIdle /\ HintDirIdle /\ RingCallIdle /\ BatchIdle
    /\ LateIdle
    /\ pools_ = <<>>
    /\ pool_held = {}
    /\ pool_fds = {}
    /\ pool_call = NoPoolCall

SpecPool == PoolInit /\ [][PoolNext]_vars

(***************************************************************************)
(* The WAL opened with batched fsync, open(dir, fsync_interval_ms,         *)
(* fsync_batch_ops): wal.h declares it and main() calls it.  written and   *)
(* synced count the records in the file and the ones an fsync has covered. *)
(***************************************************************************)
MaxBatchAppends == 6

BatchOps == {0, 1, 2, 3}

IntervalsMs == {0, 10}

\* WAL::open(directory, fsync_interval_ms, fsync_batch_ops) on a new directory.
WAL_open_batched(fsync_interval_ms, fsync_batch_ops) ==
    [fsync_interval_ms_ |-> fsync_interval_ms, fsync_batch_ops_ |-> fsync_batch_ops,
     ops_since_sync_ |-> 0, dirty_ |-> FALSE, next_seq_no_ |-> 1,
     written |-> 0, synced |-> 0, last |-> "open", batch_synced |-> FALSE]

\* An append that only writes.
WAL_append_unsynced(w) ==
    [w EXCEPT !.next_seq_no_ = @ + 1, !.written = @ + 1,
              !.ops_since_sync_ = @ + 1, !.dirty_ = TRUE,
              !.last = "append", !.batch_synced = FALSE]

\* WAL::append with the batch counter: write, count, and fsync when the
\* counter reaches fsync_batch_ops_.
WAL_append_batched(w) ==
    LET reached == w.fsync_batch_ops_ > 0 /\ w.ops_since_sync_ + 1 >= w.fsync_batch_ops_ IN
    [w EXCEPT !.next_seq_no_ = @ + 1, !.written = @ + 1,
              !.ops_since_sync_ = IF reached THEN 0 ELSE @ + 1,
              !.dirty_ = ~reached,
              !.synced = IF reached THEN w.written + 1 ELSE @,
              !.last = "append", !.batch_synced = reached]

\* WAL::sync: fsync and clear the dirty flag.
WAL_sync_batched(w) ==
    [w EXCEPT !.synced = w.written, !.dirty_ = FALSE, !.last = "sync",
              !.batch_synced = FALSE]

Batch_append ==
    /\ wal_batch.written < MaxBatchAppends
    /\ wal_batch' = WAL_append_batched(wal_batch)
    /\ UNCHANGED <<storeVars, clusterVars, diskVars, wireVars, forwards, snapFileVars,
                   hintDirVars, ring_call, poolVars, lateVars>>

\* fsync_loop: the timer fires and the file is dirty.
Batch_fsync_loop ==
    /\ wal_batch.fsync_interval_ms_ > 0 /\ wal_batch.dirty_
    /\ wal_batch' = [WAL_sync_batched(wal_batch) EXCEPT !.last = "timer"]
    /\ UNCHANGED <<storeVars, clusterVars, diskVars, wireVars, forwards, snapFileVars,
                   hintDirVars, ring_call, poolVars, lateVars>>

\* The coordinator calls sync() before a snapshot.
Batch_sync ==
    /\ wal_batch.last = "append"
    /\ wal_batch' = WAL_sync_batched(wal_batch)
    /\ UNCHANGED <<storeVars, clusterVars, diskVars, wireVars, forwards, snapFileVars,
                   hintDirVars, ring_call, poolVars, lateVars>>

BatchNext ==
    \/ Batch_append
    \/ Batch_fsync_loop
    \/ Batch_sync

BatchInit ==
    /\ StoreIdle /\ ClusterIdle /\ DiskIdle
    /\ WireIdle /\ ForwardIdle /\ SnapFileIdle /\ HintDirIdle /\ RingCallIdle /\ PoolIdle
    /\ LateIdle
    /\ \E fsync_interval_ms \in IntervalsMs, fsync_batch_ops \in BatchOps :
          wal_batch = WAL_open_batched(fsync_interval_ms, fsync_batch_ops)

SpecBatch == BatchInit /\ [][BatchNext]_vars

(***************************************************************************)
(* The thread pool: a queue of tasks under one mutex, worker threads that  *)
(* take the front task and run it outside the lock, and shutdown, which    *)
(* sets stopped_ and joins the workers.  A task is its number in the order *)
(* of the submit calls.                                                    *)
(***************************************************************************)
MaxTasks == 3

MaxThreads == 2

MaxShutdowns == 2

\* The worker loop's exit test under the lock as the comment of shutdown()
\* in the header words it: pending tasks in the queue are discarded.
worker_exits_discarding(stopped, tasks) == stopped

\* The worker loop's exit test under the lock: if (stopped_ && tasks_.empty()) return.
worker_exits(stopped, tasks) == stopped /\ tasks = <<>>

\* ThreadPool::submit, one critical section: refused when stopped_, pushed otherwise.
ThreadPool_submit ==
    /\ Len(pool_history.submits) < MaxTasks
    /\ LET task == Len(pool_history.submits) + 1 IN
       /\ tasks_' = IF stopped_ THEN tasks_ ELSE Append(tasks_, task)
       /\ pool_history' = [pool_history EXCEPT
              !.submits = Append(@, [stopped |-> stopped_, returned |-> ~stopped_])]
    /\ UNCHANGED <<stopped_, pool_threads>>

\* A worker leaves cv_.wait with the lock held: it returns, or takes the front task.
worker_take(w) ==
    /\ pool_threads[w].pc = "wait"
    /\ stopped_ \/ tasks_ # <<>>
    /\ IF worker_exits(stopped_, tasks_)
       THEN /\ pool_threads' = [pool_threads EXCEPT ![w] = [pc |-> "exited", task |-> 0]]
            /\ UNCHANGED tasks_
       ELSE /\ tasks_ # <<>>
            /\ pool_threads' = [pool_threads EXCEPT ![w] = [pc |-> "task", task |-> Head(tasks_)]]
            /\ tasks_' = Tail(tasks_)
    /\ UNCHANGED <<stopped_, pool_history>>

\* task() runs to its end, outside the lock.
worker_task(w) ==
    /\ pool_threads[w].pc = "task"
    /\ pool_history' = [pool_history EXCEPT !.runs[pool_threads[w].task] = @ + 1]
    /\ pool_threads' = [pool_threads EXCEPT ![w] = [pc |-> "wait", task |-> 0]]
    /\ UNCHANGED <<tasks_, stopped_>>

\* ThreadPool::shutdown, the critical section: stopped_ = true.  The second
\* call is the destructor's.
ThreadPool_shutdown_stop ==
    /\ pool_history.shutdown \in {"none", "returned"}
    /\ pool_history.shutdowns < MaxShutdowns
    /\ stopped_' = TRUE
    /\ pool_history' = [pool_history EXCEPT !.shutdown = "joining", !.shutdowns = @ + 1]
    /\ UNCHANGED <<tasks_, pool_threads>>

\* ThreadPool::shutdown, the joins: it returns when every worker has returned.
ThreadPool_shutdown_join ==
    /\ pool_history.shutdown = "joining"
    /\ \A w \in DOMAIN pool_threads : pool_threads[w].pc = "exited"
    /\ pool_history' = [pool_history EXCEPT !.shutdown = "returned"]
    /\ UNCHANGED <<tasks_, stopped_, pool_threads>>

ThreadPoolNext ==
    \/ /\ ThreadPool_submit
       /\ UNCHANGED <<storeVars, clusterVars, diskVars, extVars, responseVars, hint_calls, exchange, hint_resend>>
    \/ /\ \E w \in DOMAIN pool_threads : worker_take(w)
       /\ UNCHANGED <<storeVars, clusterVars, diskVars, extVars, responseVars, hint_calls, exchange, hint_resend>>
    \/ /\ \E w \in DOMAIN pool_threads : worker_task(w)
       /\ UNCHANGED <<storeVars, clusterVars, diskVars, extVars, responseVars, hint_calls, exchange, hint_resend>>
    \/ /\ ThreadPool_shutdown_stop
       /\ UNCHANGED <<storeVars, clusterVars, diskVars, extVars, responseVars, hint_calls, exchange, hint_resend>>
    \/ /\ ThreadPool_shutdown_join
       /\ UNCHANGED <<storeVars, clusterVars, diskVars, extVars, responseVars, hint_calls, exchange, hint_resend>>

\* ThreadPool::ThreadPool(num_threads): the workers start at their wait.
ThreadPoolStart(num_threads) ==
    /\ tasks_ = <<>>
    /\ stopped_ = FALSE
    /\ pool_threads = [w \in 1..num_threads |-> [pc |-> "wait", task |-> 0]]
    /\ pool_history = [submits |-> <<>>, runs |-> [t \in 1..MaxTasks |-> 0],
                       shutdown |-> "none", shutdowns |-> 0]

ThreadPoolInit ==
    /\ StoreIdle /\ ClusterIdle /\ DiskIdle
    /\ WireIdle /\ ForwardIdle /\ SnapFileIdle /\ HintDirIdle
    /\ RingCallIdle /\ PoolIdle /\ BatchIdle
    /\ ResponseIdle /\ HintCallsIdle /\ ExchangeIdle /\ ResendIdle
    /\ \E num_threads \in 1..MaxThreads : ThreadPoolStart(num_threads)

\* A worker that can take a step does: the threads are scheduled by the
\* operating system, and the wait's predicate is tested with the lock held,
\* so that no notification is lost.
ThreadPoolFairness ==
    \A w \in 1..MaxThreads :
        /\ WF_vars(w \in DOMAIN pool_threads /\ worker_take(w)
                   /\ UNCHANGED <<storeVars, clusterVars, diskVars, extVars, responseVars,
                                  hint_calls, exchange, hint_resend>>)
        /\ WF_vars(w \in DOMAIN pool_threads /\ worker_task(w)
                   /\ UNCHANGED <<storeVars, clusterVars, diskVars, extVars, responseVars,
                                  hint_calls, exchange, hint_resend>>)

SpecThreadPool == ThreadPoolInit /\ [][ThreadPoolNext]_vars /\ ThreadPoolFairness

(***************************************************************************)
(* replay_hints_for, called again and again on the hints of one target.    *)
(* Each hint goes out as RSET or RDEL with its version; the target's       *)
(* execute_local hands it to engine_.set or engine_.del, and engine is the *)
(* target's store.  A send is acknowledged, does not reach the target, or  *)
(* is executed with its answer lost; only an acknowledged send counts as   *)
(* ok, and the hints are cleared when every send of one call was ok.       *)
(***************************************************************************)
MaxResends == 3

MaxBatch == 2

ResendOutcomes == {"acked", "unreachable", "reply_lost"}

ResendVersions == {Version(1, 1), Version(1, 2), Version(2, 1)}

\* The hints a coordinator can hold for node 2.
ResendHints ==
    {Hint(AddressOf[2], 2, k, v, FALSE, ver) :
        k \in StoreKeys, v \in Values, ver \in ResendVersions}
    \cup {Hint(AddressOf[2], 2, "k1", "", TRUE, ver) : ver \in ResendVersions}

RECURSIVE BatchesOf(_)
BatchesOf(n) ==
    IF n = 0 THEN {<<>>}
    ELSE {<<h>> \o rest : h \in ResendHints, rest \in BatchesOf(n - 1)}

ResendBatches == UNION {BatchesOf(n) : n \in 1..MaxBatch}

\* execute_local of the target on the RSET or RDEL frame of a hint.
apply_hint(data, hint) ==
    IF hint.is_del THEN StorageEngine_del(data, hint.key, hint.version).data
    ELSE StorageEngine_set(data, hint.key, hint.value, hint.version).data

\* One pass of the loop of replay_hints_for: send_replication_write of the next hint.
Resend_send ==
    \E outcome \in ResendOutcomes :
        LET r        == hint_resend
            hint     == r.pending[r.next]
            executed == outcome # "unreachable"
        IN  /\ ~r.cleared
            /\ r.next <= Len(r.pending)
            /\ engine' = IF executed THEN apply_hint(engine, hint) ELSE engine
            /\ hint_resend' = [r EXCEPT
                   !.next = @ + 1,
                   !.all_ok = @ /\ outcome = "acked",
                   !.executed = IF executed THEN @ \cup {r.next} ELSE @,
                   !.again = IF executed /\ r.next \in r.executed THEN @ \cup {r.next} ELSE @]
            /\ UNCHANGED <<max_called, last_call, clusterVars, diskVars, extVars, threadPoolVars,
                           responseVars, hint_calls, exchange>>

\* The end of replay_hints_for: clear_hints_for when every send was ok.
Resend_end ==
    /\ ~hint_resend.cleared
    /\ hint_resend.next > Len(hint_resend.pending)
    /\ hint_resend.all_ok
    /\ hint_resend' = [hint_resend EXCEPT !.cleared = TRUE]
    /\ UNCHANGED <<storeVars, clusterVars, diskVars, extVars, threadPoolVars,
                   responseVars, hint_calls, exchange>>

\* The next call of replay_hints_for finds the hints a failed call has kept.
Resend_again ==
    /\ ~hint_resend.cleared
    /\ hint_resend.next > Len(hint_resend.pending)
    /\ ~hint_resend.all_ok
    /\ hint_resend.replay < MaxResends
    /\ hint_resend' = [hint_resend EXCEPT !.replay = @ + 1, !.next = 1, !.all_ok = TRUE]
    /\ UNCHANGED <<storeVars, clusterVars, diskVars, extVars, threadPoolVars,
                   responseVars, hint_calls, exchange>>

ResendNext == Resend_send \/ Resend_end \/ Resend_again

ResendInit ==
    /\ StoreInit /\ ClusterIdle /\ DiskIdle
    /\ WireIdle /\ ForwardIdle /\ SnapFileIdle /\ HintDirIdle
    /\ RingCallIdle /\ PoolIdle /\ BatchIdle
    /\ ThreadPoolIdle /\ ResponseIdle /\ HintCallsIdle /\ ExchangeIdle
    /\ \E pending \in ResendBatches :
           hint_resend = [pending |-> pending, replay |-> 1, next |-> 1, all_ok |-> TRUE,
                          executed |-> {}, again |-> {}, cleared |-> FALSE]

SpecResend == ResendInit /\ [][ResendNext]_vars

(***************************************************************************)
(* One exchange of the coordinator with a peer: send_replication_write,    *)
(* send_replication_read and forward_to acquire a connection from the      *)
(* pool, send one frame, and call recv until the bytes read end with a     *)
(* newline.  channel[fd] is the socket seen from the coordinator: pending  *)
(* are the bytes the peer has still to send, inbound the bytes that have   *)
(* arrived and are not read.  The calls follow one another on one thread.  *)
(***************************************************************************)
MaxExchanges == 2

ExchangeKinds == {"write", "read", "forward"}

ExchangePeer == AddressOf[2]

\* The peer's answer to one frame: "+OK\n".
ResponseLine == <<43, 79, 75, NL>>

NoConnection == PooledConnection(-1, "")

FreshChannel == [inbound |-> <<>>, pending |-> <<>>]

\* The call is over: what it did is noted, released tells whether the
\* connection went back to the pool.
ExchangeReturn(outcome, released) ==
    [exchange EXCEPT
        !.pc = "idle", !.conn = NoConnection,
        !.log = Append(@, [kind |-> exchange.kind, fd |-> exchange.conn.fd,
                           outcome |-> outcome, released |-> released,
                           response |-> exchange.response])]

\* pool_.acquire(address) at the entry of the three functions.
Exchange_acquire ==
    \E kind \in ExchangeKinds,
       connected \in {-1} \cup {fd \in 1..MaxFds :
                                   /\ fd \notin pool_fds
                                   /\ \A lower \in 1..(fd - 1) : lower \in pool_fds} :
        LET r == ConnectionPool_acquire(pools_, ExchangePeer, connected) IN
        /\ exchange.pc = "idle"
        /\ exchange.calls < MaxExchanges
        /\ pools_' = r.pools_
        /\ pool_fds' = pool_fds \cup r.opened
        /\ exchange' =
              IF r.present
              THEN [exchange EXCEPT
                       !.pc = "send", !.kind = kind, !.conn = r.conn, !.response = <<>>,
                       !.calls = @ + 1,
                       !.channel = IF r.opened = {} THEN @
                                   ELSE [@ EXCEPT ![r.conn.fd] = FreshChannel]]
              ELSE [exchange EXCEPT
                       !.calls = @ + 1,
                       !.log = Append(@, [kind |-> kind, fd |-> -1, outcome |-> "no_connection",
                                          released |-> FALSE, response |-> <<>>])]
        /\ UNCHANGED <<pool_held, pool_call>>

\* ::send of the frame: sent <= 0 closes the connection; any sent > 0 goes on
\* to the reads, the whole frame or a part of it.  The peer answers a whole
\* frame with one line.
Exchange_send ==
    \E sent \in {"failed", "part", "whole"} :
        LET fd == exchange.conn.fd IN
        /\ exchange.pc = "send"
        /\ IF sent = "failed"
           THEN /\ exchange' = ExchangeReturn("send_failed", FALSE)
                /\ pool_fds' = pool_fds \ {fd}
           ELSE /\ exchange' = [exchange EXCEPT
                       !.pc = "recv",
                       !.channel[fd].pending = IF sent = "whole" THEN @ \o ResponseLine ELSE @]
                /\ UNCHANGED pool_fds
        /\ UNCHANGED <<pools_, pool_held, pool_call>>

\* The peer's bytes arrive, some at a time.
Peer_send ==
    \E fd \in pool_fds : \E n \in 1..Len(exchange.channel[fd].pending) :
        /\ exchange' = [exchange EXCEPT
               !.channel[fd].inbound = @ \o SubSeq(exchange.channel[fd].pending, 1, n),
               !.channel[fd].pending = SubSeq(@, n + 1, Len(@))]
        /\ UNCHANGED <<pools_, pool_fds, pool_held, pool_call>>

\* ::recv returns n > 0 bytes; the loop ends when the bytes read so far end
\* with a newline, and the connection goes back to the pool.
Exchange_recv ==
    LET fd == exchange.conn.fd IN
    /\ exchange.pc = "recv"
    /\ \E n \in 1..Len(exchange.channel[fd].inbound) :
          LET response == exchange.response \o SubSeq(exchange.channel[fd].inbound, 1, n)
              read     == [exchange EXCEPT
                              !.response = response,
                              !.channel[fd].inbound = SubSeq(@, n + 1, Len(@))]
          IN  IF response[Len(response)] = NL
              THEN LET r == ConnectionPool_release(pools_, exchange.conn) IN
                   /\ exchange' = [read EXCEPT
                          !.pc = "idle", !.conn = NoConnection,
                          !.log = Append(@, [kind |-> exchange.kind, fd |-> fd,
                                             outcome |-> "ok", released |-> r.closed = {},
                                             response |-> response])]
                   /\ pools_' = r.pools_
                   /\ pool_fds' = pool_fds \ r.closed
              ELSE /\ exchange' = read
                   /\ UNCHANGED <<pools_, pool_fds>>
    /\ UNCHANGED <<pool_held, pool_call>>

\* ::recv returns n <= 0, the receive timeout with nothing to read.
\* send_replication_write and send_replication_read close the connection;
\* forward_to closes it when nothing was read and leaves the loop otherwise.
Exchange_recv_fail ==
    LET fd == exchange.conn.fd IN
    /\ exchange.pc = "recv"
    /\ exchange.channel[fd].inbound = <<>>
    /\ IF exchange.kind = "forward" /\ exchange.response # <<>>
       THEN LET r == ConnectionPool_release(pools_, exchange.conn) IN
            /\ exchange' = ExchangeReturn("recv_failed", r.closed = {})
            /\ pools_' = r.pools_
            /\ pool_fds' = pool_fds \ r.closed
       ELSE /\ exchange' = ExchangeReturn("recv_failed", FALSE)
            /\ pool_fds' = pool_fds \ {fd}
            /\ UNCHANGED pools_
    /\ UNCHANGED <<pool_held, pool_call>>

ExchangeNext ==
    \/ /\ Exchange_acquire
       /\ UNCHANGED <<storeVars, clusterVars, diskVars, wireVars, forwards, snapFileVars,
                      hintDirVars, ring_call, wal_batch, threadPoolVars, responseVars,
                      hint_calls, hint_resend>>
    \/ /\ Exchange_send
       /\ UNCHANGED <<storeVars, clusterVars, diskVars, wireVars, forwards, snapFileVars,
                      hintDirVars, ring_call, wal_batch, threadPoolVars, responseVars,
                      hint_calls, hint_resend>>
    \/ /\ Peer_send
       /\ UNCHANGED <<storeVars, clusterVars, diskVars, wireVars, forwards, snapFileVars,
                      hintDirVars, ring_call, wal_batch, threadPoolVars, responseVars,
                      hint_calls, hint_resend>>
    \/ /\ Exchange_recv
       /\ UNCHANGED <<storeVars, clusterVars, diskVars, wireVars, forwards, snapFileVars,
                      hintDirVars, ring_call, wal_batch, threadPoolVars, responseVars,
                      hint_calls, hint_resend>>
    \/ /\ Exchange_recv_fail
       /\ UNCHANGED <<storeVars, clusterVars, diskVars, wireVars, forwards, snapFileVars,
                      hintDirVars, ring_call, wal_batch, threadPoolVars, responseVars,
                      hint_calls, hint_resend>>

ExchangeInit ==
    /\ StoreIdle /\ ClusterIdle /\ DiskIdle
    /\ WireIdle /\ ForwardIdle /\ SnapFileIdle /\ HintDirIdle /\ RingCallIdle /\ BatchIdle
    /\ ThreadPoolIdle /\ ResponseIdle /\ HintCallsIdle /\ ResendIdle
    /\ pools_ = <<>>
    /\ pool_held = {}
    /\ pool_fds = {}
    /\ pool_call = NoPoolCall
    /\ exchange = [pc |-> "idle", kind |-> "write", conn |-> NoConnection, response |-> <<>>,
                   channel |-> [fd \in 1..MaxFds |-> FreshChannel], calls |-> 0, log |-> <<>>]

SpecExchange == ExchangeInit /\ [][ExchangeNext]_vars

(***************************************************************************)
(* HintStore::store and clear_hints_for called from several threads.       *)
(* store pushes the hint under the mutex and appends it to the file after  *)
(* the lock is released; clear_hints_for erases the vector and removes the *)
(* file under the mutex.                                                   *)
(***************************************************************************)
MaxHintCalls == 3

HintThreads == {1, 2}

\* store, the critical section: hints_[hint.target_node_id].push_back(hint).
HintCall_store_push(t) ==
    /\ hint_calls.threads[t].pc = "idle"
    /\ hint_calls.calls < MaxHintCalls
    /\ \E hint \in HintChoices :
          /\ hint_mem' = HintStore_store(hint_mem, hint)
          /\ hint_calls' = [hint_calls EXCEPT !.threads[t] = [pc |-> "append", hint |-> hint],
                                              !.calls = @ + 1]
    /\ UNCHANGED hint_dir

\* store, after the lock: append_to_disk(hint).
HintCall_store_append(t) ==
    /\ hint_calls.threads[t].pc = "append"
    /\ hint_dir' = HintStore_append_to_disk(hint_dir, hint_calls.threads[t].hint)
    /\ hint_calls' = [hint_calls EXCEPT !.threads[t].pc = "idle"]
    /\ UNCHANGED hint_mem

\* clear_hints_for(target), one critical section.
HintCall_clear_hints_for(t) ==
    /\ hint_calls.threads[t].pc = "idle"
    /\ hint_calls.calls < MaxHintCalls
    /\ \E target \in {2, 3} :
          /\ hint_mem' = HintStore_clear_hints_for(hint_mem, target)
          /\ hint_dir' = [f \in DOMAIN hint_dir \ {target} |-> hint_dir[f]]
    /\ hint_calls' = [hint_calls EXCEPT !.calls = @ + 1]

HintCallsNext ==
    \/ /\ \E t \in HintThreads : HintCall_store_push(t)
       /\ UNCHANGED <<hint_history, hint_reloaded, storeVars, clusterVars, diskVars, wireVars,
                      forwards, snapFileVars, ring_call, poolVars, wal_batch, threadPoolVars,
                      responseVars, exchange, hint_resend>>
    \/ /\ \E t \in HintThreads : HintCall_store_append(t)
       /\ UNCHANGED <<hint_history, hint_reloaded, storeVars, clusterVars, diskVars, wireVars,
                      forwards, snapFileVars, ring_call, poolVars, wal_batch, threadPoolVars,
                      responseVars, exchange, hint_resend>>
    \/ /\ \E t \in HintThreads : HintCall_clear_hints_for(t)
       /\ UNCHANGED <<hint_history, hint_reloaded, storeVars, clusterVars, diskVars, wireVars,
                      forwards, snapFileVars, ring_call, poolVars, wal_batch, threadPoolVars,
                      responseVars, exchange, hint_resend>>

HintCallsInit ==
    /\ StoreIdle /\ ClusterIdle /\ DiskIdle
    /\ WireIdle /\ ForwardIdle /\ SnapFileIdle /\ RingCallIdle /\ PoolIdle /\ BatchIdle
    /\ ThreadPoolIdle /\ ResponseIdle /\ ExchangeIdle /\ ResendIdle
    /\ hint_dir = <<>>
    /\ hint_mem = <<>>
    /\ hint_history = [op |-> "none", target |-> 0, before |-> <<>>, stores |-> 0]
    /\ hint_reloaded = FALSE
    /\ hint_calls = [threads |-> [t \in HintThreads |->
                                     [pc |-> "idle", hint |-> Hint("", 0, "", "", FALSE, ZeroVersion)]],
                     calls |-> 0]

SpecHintCalls == HintCallsInit /\ [][HintCallsNext]_vars

(***************************************************************************)
(* The server's path from the frames of one connection to the bytes it     *)
(* writes back.  The event loop runs process_commands on read_buf: a frame *)
(* that does not parse has its error response pushed to response_queue_ at *)
(* once, a command goes to the thread pool, whose worker pushes the        *)
(* response when execute_command has returned.  drain_responses, on the    *)
(* event loop again, moves the queue to write_buf in the queue's order.    *)
(* A response carries the number of its frame.                             *)
(***************************************************************************)
MaxPipeline == 3

\* "PING\n", "GET 2 k1\n", and a line that is no command.
PipelineFrames ==
    {WordPING \o <<NL>>,
     WordGET \o <<SP, DIGIT_0 + 2, SP>> \o KeyText["k1"] \o <<NL>>,
     <<66, 79, 71, 85, 83, NL>>}

RECURSIVE Pipelines(_)
Pipelines(n) ==
    IF n = 0 THEN {<<>>}
    ELSE {frame \o rest : frame \in PipelineFrames, rest \in Pipelines(n - 1)}

\* TCPServer::execute_command.
execute_command(cmd, data) ==
    CASE cmd.type = "PING" -> format_pong
      [] cmd.type = "GET"  ->
            LET result == StorageEngine_get(data, KeyNameOf(cmd.key)) IN
            IF result.found THEN format_value(result.value) ELSE format_not_found
      [] OTHER -> format_error("INTERNAL")

PendingResponse(frame, data) == [frame |-> frame, data |-> data]

\* One pass of the loop of process_commands.
Server_process_frame ==
    /\ read_buf # <<>>
    /\ \E r \in {try_parse(read_buf)} :
          /\ r.status # "INCOMPLETE"
          /\ read_buf' = SubSeq(read_buf, r.bytes_consumed + 1, Len(read_buf))
          /\ IF r.status = "ERROR"
             THEN /\ response_queue_' =
                        Append(response_queue_,
                               PendingResponse(Len(wire_parsed) + 1, format_error(r.error_msg)))
                  /\ wire_parsed' = Append(wire_parsed, [status |-> r.status, task |-> 0,
                                                         command |-> r.command])
                  /\ UNCHANGED threadPoolVars
             ELSE /\ ThreadPool_submit
                  /\ wire_parsed' = Append(wire_parsed,
                                           [status |-> r.status,
                                            task |-> Len(pool_history.submits) + 1,
                                            command |-> r.command])
                  /\ UNCHANGED response_queue_
    /\ UNCHANGED write_buf

\* A worker takes the next task from the pool's queue.
Server_worker_take ==
    /\ \E w \in DOMAIN pool_threads : worker_take(w)
    /\ UNCHANGED <<read_buf, wire_parsed, responseVars>>

\* The task of process_commands: execute_command, then the push to response_queue_.
Server_worker_task ==
    /\ \E w \in DOMAIN pool_threads :
          /\ worker_task(w)
          /\ \E frame \in {f \in 1..Len(wire_parsed) :
                              wire_parsed[f].task = pool_threads[w].task} :
                response_queue_' =
                    Append(response_queue_,
                           PendingResponse(frame,
                                           execute_command(wire_parsed[frame].command, engine)))
    /\ UNCHANGED <<read_buf, wire_parsed, write_buf>>

\* drain_responses, when the event loop is back from process_commands.
Server_drain_responses ==
    /\ read_buf = <<>>
    /\ response_queue_ # <<>>
    /\ write_buf' = write_buf \o response_queue_
    /\ response_queue_' = <<>>
    /\ UNCHANGED <<read_buf, wire_parsed, threadPoolVars>>

ResponseNext ==
    \/ /\ Server_process_frame
       /\ UNCHANGED <<storeVars, clusterVars, diskVars, wire_sent, wire_bytes, forwards,
                      snapFileVars, hintDirVars, ring_call, poolVars, wal_batch,
                      hint_calls, exchange, hint_resend>>
    \/ /\ Server_worker_take
       /\ UNCHANGED <<storeVars, clusterVars, diskVars, wire_sent, wire_bytes, forwards,
                      snapFileVars, hintDirVars, ring_call, poolVars, wal_batch,
                      hint_calls, exchange, hint_resend>>
    \/ /\ Server_worker_task
       /\ UNCHANGED <<storeVars, clusterVars, diskVars, wire_sent, wire_bytes, forwards,
                      snapFileVars, hintDirVars, ring_call, poolVars, wal_batch,
                      hint_calls, exchange, hint_resend>>
    \/ /\ Server_drain_responses
       /\ UNCHANGED <<storeVars, clusterVars, diskVars, wire_sent, wire_bytes, forwards,
                      snapFileVars, hintDirVars, ring_call, poolVars, wal_batch,
                      hint_calls, exchange, hint_resend>>

\* handle_read has put one to three frames, sent in one piece, into read_buf.
ResponseInit ==
    /\ StoreIdle /\ ClusterIdle /\ DiskIdle
    /\ ForwardIdle /\ SnapFileIdle /\ HintDirIdle /\ RingCallIdle /\ PoolIdle /\ BatchIdle
    /\ HintCallsIdle /\ ExchangeIdle /\ ResendIdle
    /\ wire_sent = <<>>
    /\ wire_bytes = <<>>
    /\ \E n \in 1..MaxPipeline : read_buf \in Pipelines(n)
    /\ wire_parsed = <<>>
    /\ response_queue_ = <<>>
    /\ write_buf = <<>>
    /\ \E num_threads \in 1..MaxThreads : ThreadPoolStart(num_threads)

SpecResponse == ResponseInit /\ [][ResponseNext]_vars

(***************************************************************************)
(* C1: for any sequence of set/del calls on one key, no call lowers the    *)
(* stored version under the order (timestamp_ms, then node_id), and after  *)
(* the calls made so far the stored version is the maximum version among   *)
(* them (a key never called is absent).                                    *)
(***************************************************************************)
C1_StoredIsMax ==
    \A k \in StoreKeys :
        IF max_called[k].any
        THEN engine[k].present /\ engine[k].version = max_called[k].version
        ELSE ~engine[k].present

C1_NeverLowered ==
    \A k \in StoreKeys :
        engine[k].present =>
            engine'[k].present /\ VersionLeq(engine[k].version, engine'[k].version)

C1_LwwMonotone == []C1_StoredIsMax /\ [][C1_NeverLowered]_vars

\* A call with an older version was rejected after a newer one was stored.
C1_Witness ==
    /\ last_call.op # "none"
    /\ ~last_call.ret
    /\ engine[last_call.key].present
    /\ is_newer(engine[last_call.key].version, last_call.version)

(***************************************************************************)
(* Notions the claims below are stated with.                               *)
(***************************************************************************)
Range(f) == {f[i] : i \in DOMAIN f}

Returned(op) == op.resp # <<>> /\ op.replicas # <<>>

HintOf(op, i) ==
    Hint(op.replicas[i].address, op.replicas[i].node_id, op.key, op.value, op.is_del,
         op.version)

StoredHints(c, t) == Range(HintStore_get_hints_for(hints[c], t))

Answered(op) == {i \in 1..Len(op.responses) : op.responses[i].ok}

Found(op) == {i \in Answered(op) : op.responses[i].found}

Quiescent ==
    /\ \A w \in 1..Len(writes) : writes[w].resp # <<>>
    /\ \A g \in 1..Len(reads) : reads[g].resp # <<>>
    /\ \A p \in 1..Len(repairs) : repairs[p].next > Len(repairs[p].stale)
    /\ \A j \in 1..Len(replays) : replays[j].done

ReplicasOf(key) ==
    {n.node_id : n \in Range(get_replica_nodes(ring, key_hash[key], quorum.replication_factor))}

(***************************************************************************)
(* C3: quorum_write answers +OK exactly when at least W legs acknowledged, *)
(* -ERR QUORUM_FAILED exactly when fewer did, and -ERR EMPTY_RING exactly  *)
(* when the ring gave no replica; in that last case the call leaves every  *)
(* store, WAL and hint store as it found them.                             *)
(***************************************************************************)
C3_Answer ==
    \A w \in 1..Len(writes) :
        LET op == writes[w] IN
        /\ op.resp = format_error("EMPTY_RING") <=> op.replicas = <<>>
        /\ Returned(op) =>
              /\ op.resp = format_ok <=> op.acks >= quorum.write_quorum
              /\ op.resp = format_error("QUORUM_FAILED") <=> op.acks < quorum.write_quorum

C3_EmptyRingTouchesNothing ==
    (Len(writes') > Len(writes) /\ writes'[Len(writes')].resp = format_error("EMPTY_RING"))
        => UNCHANGED <<store, wal, ops_since_snapshot, snapshots, hints>>

C3_QuorumWriteResult == []C3_Answer /\ [][C3_EmptyRingTouchesNothing]_vars

C3_Witness ==
    \E w1, w2 \in 1..Len(writes) :
        /\ writes[w1].resp = format_ok
        /\ writes[w1].acks = quorum.write_quorum
        /\ writes[w2].resp = format_error("QUORUM_FAILED")
        /\ writes[w2].acks = quorum.write_quorum - 1
        /\ quorum.write_quorum = 2

(***************************************************************************)
(* C4: every leg of quorum_write that ends either counts one               *)
(* acknowledgement or appends to the coordinator's hint store a hint with  *)
(* the replica's node id and address, the key, the value, the delete flag  *)
(* and the minted version; only remote legs are hinted; and when the call  *)
(* has returned, acknowledgements plus hinted legs equal the number of     *)
(* replicas, for +OK and for QUORUM_FAILED alike.                          *)
(***************************************************************************)
C4_Accounted ==
    \A w \in 1..Len(writes) :
        LET op == writes[w] IN
        Returned(op) =>
            /\ op.acks + Cardinality(op.hinted) = Len(op.replicas)
            /\ \A i \in op.hinted : op.replicas[i].node_id # op.coord

C4_LegAcksOrHints ==
    \A w \in 1..Len(writes) :
        \A i \in writes[w].pending :
            LET op     == writes[w]
                t      == op.replicas[i].node_id
                before == HintStore_get_hints_for(hints[op.coord], t)
                after  == HintStore_get_hints_for(hints'[op.coord], t)
            IN  i \notin writes'[w].pending =>
                    \/ /\ writes'[w].acks = op.acks + 1
                       /\ writes'[w].hinted = op.hinted
                       /\ hints' = hints
                    \/ /\ writes'[w].acks = op.acks
                       /\ writes'[w].hinted = op.hinted \cup {i}
                       /\ after = Append(before, HintOf(op, i))

C4_AckOrHintPerReplica == []C4_Accounted /\ [][C4_LegAcksOrHints]_vars

C4_Witness ==
    \E w \in 1..Len(writes) :
        LET op == writes[w] IN
        /\ op.resp = format_error("QUORUM_FAILED")
        /\ Cardinality(op.hinted) = 2
        /\ \A i \in op.hinted : HintOf(op, i) \in StoredHints(op.coord, op.replicas[i].node_id)

\* As first stated: at the return of quorum_write the hint of every replica
\* that did not acknowledge is in the hint store.
C4_HintInStoreAtReturn ==
    [][\A w \in 1..Len(writes) :
          (writes[w].resp = <<>> /\ writes'[w].resp # <<>>) =>
              \A i \in writes[w].hinted :
                  HintOf(writes[w], i) \in
                      Range(HintStore_get_hints_for(hints'[writes[w].coord],
                                                    writes[w].replicas[i].node_id))]_vars

(***************************************************************************)
(* C5: a hint that quorum_write stored is either still in the hint store   *)
(* or was sent to its target by a replay and acknowledged with +OK.        *)
(***************************************************************************)
C5_HintLeavesOnlyAcked ==
    \A e \in hint_log :
        \/ e[2] \in StoredHints(e[1], e[2].target_node_id)
        \/ e \in hint_acked

(***************************************************************************)
(* C6: the step that ends replay_hints_for(t) changes the hints of t only  *)
(* when every hint of the list it fetched was acknowledged in this replay; *)
(* when a send failed the hint store is left as it was; the hints of other *)
(* targets and of other coordinators are never changed, and no send        *)
(* changes the hint store.                                                 *)
(***************************************************************************)
C6_ReplayStep ==
    \A j \in 1..Len(replays) :
        LET r       == replays[j]
            all     == 1..Len(r.pending)
            ends    == ~r.done /\ replays'[j].done
            sends   == replays'[j].next # r.next
        IN  /\ sends => hints' = hints
            /\ ends =>
                  /\ HintStore_get_hints_for(hints'[r.coord], r.target) #
                         HintStore_get_hints_for(hints[r.coord], r.target) => r.acked = all
                  /\ r.acked # all => hints' = hints
                  /\ \A t \in Nodes \ {r.target} :
                         HintStore_get_hints_for(hints'[r.coord], t) =
                             HintStore_get_hints_for(hints[r.coord], t)
                  /\ \A n \in Nodes \ {r.coord} : hints'[n] = hints[n]

C7_Converged ==
    (/\ Quiescent
     /\ \A w \in 1..Len(writes) : \A n \in ReplicasOf(writes[w].key) :
            <<n, Payload(writes[w].key, writes[w].value, writes[w].is_del,
                         writes[w].version)>> \in delivered)
        => \A k \in ClusterKeys : \A n, m \in ReplicasOf(k) : store[n][k] = store[m][k]

(***************************************************************************)
(* C8: a quorum_read that queried replicas answers -ERR QUORUM_FAILED      *)
(* exactly when none of them answered, -NOT_FOUND exactly when some        *)
(* answered and none found a value, and otherwise the value of an answer   *)
(* whose version no found answer exceeds.                                  *)
(***************************************************************************)
C8_ReadAnswer ==
    \A g \in 1..Len(reads) :
        LET op == reads[g] IN
        Returned(op) =>
            /\ op.resp = format_error("QUORUM_FAILED") <=> Answered(op) = {}
            /\ op.resp = format_not_found <=> (Answered(op) # {} /\ Found(op) = {})
            /\ Found(op) # {} =>
                   \E i \in Found(op) :
                       /\ op.resp = format_value(op.responses[i].value)
                       /\ \A j \in Found(op) :
                              VersionLeq(op.responses[j].version, op.responses[i].version)

C8_Witness ==
    \E g \in 1..Len(reads) :
        LET op == reads[g] IN
        /\ Returned(op)
        /\ \E i, j \in Found(op) :
               /\ is_newer(op.responses[i].version, op.responses[j].version)
               /\ op.responses[i].value # op.responses[j].value
               /\ op.resp = format_value(op.responses[i].value)

(***************************************************************************)
(* C2: a GET that began after a write of its key was answered +OK with     *)
(* version v, and that answers a value or -NOT_FOUND, answers the value of *)
(* a SET whose version is at least v, or -NOT_FOUND when a DEL of version  *)
(* at least v was issued.                                                  *)
(***************************************************************************)
C2_ReadSeesAckedWrite ==
    \A g \in 1..Len(reads) :
        LET op == reads[g] IN
        (Returned(op) /\ op.resp # format_error("QUORUM_FAILED")) =>
            \A w \in op.after :
                writes[w].key = op.key =>
                    \E x \in 1..Len(writes) :
                        /\ writes[x].key = op.key
                        /\ VersionLeq(writes[w].version, writes[x].version)
                        /\ IF writes[x].is_del THEN op.resp = format_not_found
                           ELSE op.resp = format_value(writes[x].value)

(***************************************************************************)
(* C9: when every write was answered +OK before a GET of the key began,    *)
(* the last write issued is a DEL whose version is newer than that of      *)
(* every other write, and all R queried replicas answered the GET, the GET *)
(* answers -NOT_FOUND.                                                     *)
(***************************************************************************)
C9_DeleteStaysDeleted ==
    \A g \in 1..Len(reads) :
        LET op == reads[g]
            d  == Len(writes)
        IN  (/\ Returned(op)
             /\ Answered(op) = 1..Len(op.replicas)
             /\ d >= 1
             /\ op.after = 1..d
             /\ writes[d].is_del
             /\ writes[d].key = op.key
             /\ \A x \in 1..(d - 1) : is_newer(writes[d].version, writes[x].version))
                => op.resp = format_not_found

(***************************************************************************)
(* C10: on the single-node ring, the GET that follows a SET k v answered   *)
(* +OK answers v.                                                          *)
(***************************************************************************)
C10_SetThenGet ==
    \A g \in 1..Len(reads) :
        LET op == reads[g] IN
        (/\ op.resp # <<>>
         /\ op.issued >= 1
         /\ ~writes[op.issued].is_del
         /\ writes[op.issued].key = op.key
         /\ writes[op.issued].resp = format_ok)
            => op.resp = format_value(writes[op.issued].value)

(***************************************************************************)
(* C11: after a GET answered a value, every replica that answered it with  *)
(* not-found or with a version older than the winning one, and that the    *)
(* repair's send reaches, eventually holds an entry whose version is at    *)
(* least the winning version; the step in which the GET returns changes no *)
(* store, the repairs run after it.                                        *)
(***************************************************************************)
WinningVersion(op) ==
    LET i == CHOOSE i \in Found(op) :
                 \A j \in Found(op) : VersionLeq(op.responses[j].version, op.responses[i].version)
    IN  op.responses[i].version

NeedsRepair(op) ==
    IF Found(op) = {} THEN {}
    ELSE {i \in Answered(op) :
             ~op.responses[i].found \/ is_newer(WinningVersion(op), op.responses[i].version)}

C11_Repaired(g) ==
    /\ g <= Len(reads)
    /\ LET op == reads[g] IN
       \A i \in NeedsRepair(op) :
           LET n == op.replicas[i].node_id IN
           \/ \E p \in 1..Len(repairs) : repairs[p].read = g /\ n \in repairs[p].unreached
           \/ /\ store[n][op.key].present
              /\ VersionLeq(WinningVersion(op), store[n][op.key].version)

C11_AnsweredValue(g) ==
    g <= Len(reads) /\ Returned(reads[g]) /\ Found(reads[g]) # {}

C11_ReturnDoesNotRepair ==
    \A g \in 1..Len(reads) :
        (reads[g].resp = <<>> /\ reads'[g].resp # <<>>) => store' = store /\ wal' = wal

\* A repair thread exists for the replicas that need one, and when it has
\* gone through its list they are repaired or were not reached.
C11_RepairCoversStale ==
    \A g \in 1..Len(reads) :
        LET op == reads[g] IN
        (Returned(op) /\ NeedsRepair(op) # {}) =>
            \E p \in 1..Len(repairs) :
                /\ repairs[p].read = g
                /\ {op.replicas[i].node_id : i \in NeedsRepair(op)} =
                       {n.node_id : n \in Range(repairs[p].stale)}
                /\ repairs[p].next > Len(repairs[p].stale) => C11_Repaired(g)

C11_ReadRepairEventually ==
    /\ []C11_RepairCoversStale
    /\ \A g \in 1..MaxReads : C11_AnsweredValue(g) ~> C11_Repaired(g)
    /\ [][C11_ReturnDoesNotRepair]_vars

C11_Witness ==
    \E p \in 1..Len(repairs) :
        LET job == repairs[p]
            op  == reads[job.read]
        IN  /\ job.next > Len(job.stale)
            /\ job.unreached = {}
            /\ C11_Repaired(job.read)
            /\ \E i \in NeedsRepair(op) :
                   /\ op.replicas[i].node_id # op.coord
                   /\ ~op.responses[i].found
                   /\ store[op.replicas[i].node_id][op.key] =
                          ValueEntry(FALSE, job.value, job.latest_ver)


(***************************************************************************)
(* C12: every record for which append returned a seq_no before a sync()    *)
(* that has returned is among the records recover() returns after any      *)
(* later crash and reopen, whatever appends, tail-tearing crashes and      *)
(* recoveries the log went through before.                                 *)
(***************************************************************************)
C12_SyncedSurvives ==
    (wal_recovered.done /\ ~wal_recovered.fault /\ wal_damage.stopped_by = "crash") =>
        \A i \in 1..Len(wal_appends) :
            (wal_appends[i].synced /\ wal_appends[i].lifetime < wal_object.lifetime)
                => wal_appends[i].record \in Range(wal_recovered.records)

(***************************************************************************)
(* C13: when the tail of a log file is truncated or corrupted from some    *)
(* byte position on, recover() returns exactly the records that lie before *)
(* the first damaged record, in append order and with their fields, and    *)
(* nothing at or after the damage; on an empty file it returns the empty   *)
(* list.                                                                   *)
(***************************************************************************)
RecordSize(rec) == MIN_SIZE + Len(rec.key) + Len(rec.value)

RECURSIVE RecordEnd(_)
\* the file offset behind the i-th appended record
RecordEnd(i) == IF i = 0 THEN 0 ELSE RecordEnd(i - 1) + RecordSize(wal_appends[i].record)

\* The records written before the damage that lie entirely before it.
IntactPrefix ==
    LET written == {i \in 1..Len(wal_appends) : wal_appends[i].lifetime = 1}
        intact  == {i \in written : RecordEnd(i) <= wal_damage.damage.pos}
    IN  [i \in 1..Cardinality(intact) |-> wal_appends[i].record]

C13_RecoverReturnsPrefix ==
    /\ (wal_recovered.done /\ wal_file = <<>>) =>
            ~wal_recovered.fault /\ wal_recovered.records = <<>>
    /\ (wal_recovered.done /\ wal_damage.damage # NoDamage /\ wal_object.lifetime = 2) =>
            ~wal_recovered.fault /\ wal_recovered.records = IntactPrefix

\* The same for a tail that was cut off or had one byte inverted.
C13_CutOrFlipReturnsPrefix ==
    wal_damage.damage.kind \in {"truncate", "flip"} => C13_RecoverReturnsPrefix

(***************************************************************************)
(* C14: every seq_no returned by append is strictly greater than every     *)
(* seq_no the same WAL object returned before, also when appends run       *)
(* concurrently, and after a close and a reopen of the same directory the  *)
(* next append returns the last seq_no assigned before plus one.           *)
(***************************************************************************)
C14_IncreasingPerObject ==
    \A i, j \in 1..Len(wal_appends) :
        (i < j /\ wal_appends[i].lifetime = wal_appends[j].lifetime)
            => wal_appends[i].seq_no < wal_appends[j].seq_no

\* The last seq_no the object that was closed had assigned.
LastAssigned == wal_appends[Len(wal_appends)].seq_no

\* The object was opened after the close of an object that had appended, and
\* has not appended yet.
Reopened ==
    /\ wal_object.open
    /\ wal_damage.stopped_by = "close"
    /\ wal_appends # <<>>
    /\ wal_appends[Len(wal_appends)].lifetime = wal_object.lifetime - 1

C14_ReopenContinues == Reopened => wal_object.next_seq_no_ = LastAssigned + 1

C14_SeqNoMonotonic == C14_IncreasingPerObject /\ C14_ReopenContinues

(***************************************************************************)
(* C15: every snapshot that maybe_snapshot writes with seq N contains the  *)
(* effect of every log record with seq_no <= N, however the concurrent     *)
(* handle_command calls interleave; so a start that loads the snapshot and *)
(* skips the records up to N loses no write.                               *)
(***************************************************************************)
\* The snapshot holds, for the command's key, the command's version or a newer one.
HoldsEffect(snap, cmd) ==
    \E e \in snap.entries :
        /\ e[1] = cmd.key
        /\ VersionLeq(Version(cmd.timestamp_ms, cmd.node_id), e[2].version)

C15_SnapshotCoversLog ==
    \A i \in 1..Len(node.snaps), j \in 1..Len(logged) :
        logged[j].seq_no <= node.snaps[i].seq_no => HoldsEffect(node.snaps[i], logged[j].cmd)

(***************************************************************************)
(* C16: a start from a snapshot at seq S and the log yields, for every     *)
(* key, the LWW-maximum of the snapshot entry and the log records with     *)
(* seq_no > S, and applies no record with seq_no <= S: a key only in the   *)
(* snapshot keeps its snapshot value, a key only in the tail gets its tail *)
(* value, and a tail record newer than the snapshot entry replaces it.     *)
(***************************************************************************)
\* What the writes behind the snapshot and the snapshot itself offer for key k.
Candidates(k) ==
    LET snap == IF node.snaps = <<>> THEN {}
                ELSE {e[2] : e \in {x \in Snapshot_find_latest(node.snaps).entries : x[1] = k}}
        tail == {ValueEntry(logged[j].cmd.type = "RDEL", logged[j].cmd.value,
                            Version(logged[j].cmd.timestamp_ms, logged[j].cmd.node_id)) :
                    j \in {i \in 1..Len(logged) : /\ logged[i].seq_no > booted.snapshot_seq
                                                   /\ logged[i].cmd.key = k}}
    IN  snap \cup tail

LwwMaxima(k) ==
    {c \in Candidates(k) : \A d \in Candidates(k) : VersionLeq(d.version, c.version)}

C16_BootstrapIsLwwMax ==
    booted.up =>
        \A k \in StoreKeys :
            IF Candidates(k) = {} THEN booted.data[k] = Absent
            ELSE \E c \in LwwMaxima(k) :
                    /\ booted.data[k].present
                    /\ booted.data[k].is_tombstone = c.is_tombstone
                    /\ booted.data[k].value = c.value

(***************************************************************************)
(* C17: set and del return true exactly when the key was absent or the     *)
(* given version is strictly newer than the stored one; a call with an     *)
(* equal or older version returns false and leaves the entry of that key   *)
(* (tombstone flag, value, version) and every other key unchanged.         *)
(***************************************************************************)
C17_Step ==
    LET c == last_call' IN
    /\ c.ret <=> (~engine[c.key].present \/ is_newer(c.version, engine[c.key].version))
    /\ ~c.ret => engine' = engine
    /\ \A k \in StoreKeys \ {c.key} : engine'[k] = engine[k]

C17_ReturnAndFrame == [][C17_Step]_vars

\* A call with the stored version and another content has been turned down.
C17_Witness ==
    /\ last_call.op # "none" /\ ~last_call.ret
    /\ engine[last_call.key].version = last_call.version
    /\ \/ last_call.op = "set" /\ engine[last_call.key].is_tombstone
       \/ last_call.op = "del" /\ ~engine[last_call.key].is_tombstone
    /\ \E k \in StoreKeys \ {last_call.key} : engine[k].present

(***************************************************************************)
(* C18: after del(k, v) was applied, get(k) reports not-found while        *)
(* all_entries() still contains k with is_tombstone = true and version v;  *)
(* this stays so under any later set or del of k whose version is not      *)
(* strictly newer than v, and only a set with a strictly newer version     *)
(* makes get(k) find a value again.                                        *)
(***************************************************************************)
Tombstone(data, k, v) ==
    /\ ~StorageEngine_get(data, k).found
    /\ <<k, ValueEntry(TRUE, "", v)>> \in StorageEngine_all_entries(data)

C18_Step ==
    LET c == last_call' IN
    /\ (c.op = "del" /\ c.ret) => Tombstone(engine', c.key, c.version)
    /\ \A k \in StoreKeys :
         (engine[k].present /\ engine[k].is_tombstone) =>
            /\ Tombstone(engine, k, engine[k].version)
            /\ ~(c.key = k /\ is_newer(c.version, engine[k].version))
                  => Tombstone(engine', k, engine[k].version)
            /\ StorageEngine_get(engine', k).found
                  => c.op = "set" /\ c.key = k /\ is_newer(c.version, engine[k].version)

C18_TombstoneStays == [][C18_Step]_vars

\* A tombstone has just outlived a set that was not strictly newer.
C18_Witness ==
    /\ last_call.op = "set" /\ ~last_call.ret
    /\ engine[last_call.key].is_tombstone
    /\ Tombstone(engine, last_call.key, engine[last_call.key].version)

(***************************************************************************)
(* C19: handle_command for RSET or RDEL always returns +OK, also when the  *)
(* store's LWW guard rejects the write as stale or equal; in that case the *)
(* key's stored entry is unchanged.                                        *)
(***************************************************************************)
WriteReturned(w) == w.pc = "idle" /\ w.cmd.type \in {"RSET", "RDEL"}

GuardRejects(data, cmd) ==
    /\ data[cmd.key].present
    /\ ~is_newer(Version(cmd.timestamp_ms, cmd.node_id), data[cmd.key].version)

C19_Step ==
    \A t \in DOMAIN workers :
        /\ WriteReturned(workers'[t]) => workers'[t].resp = <<"+OK">>
        /\ (workers[t].pc = "apply" /\ workers'[t].pc = "count"
              /\ GuardRejects(node.data, workers[t].cmd))
             => /\ node'.data[workers[t].cmd.key] = node.data[workers[t].cmd.key]
                /\ ~workers'[t].accepted

C19_AlwaysOk == [][C19_Step]_vars

\* An RSET with another value and a version that is not newer has returned.
C19_Witness ==
    \E t \in DOMAIN workers :
        /\ WriteReturned(workers[t]) /\ workers[t].cmd.type = "RSET"
        /\ ~workers[t].accepted
        /\ workers[t].resp = <<"+OK">>
        /\ node.data[workers[t].cmd.key].value # workers[t].cmd.value

(***************************************************************************)
(* C20: an RSET (k, value, timestamp_ms, node_id) that the LWW guard       *)
(* accepts stores exactly the version carried by the command, not one      *)
(* taken from the local clock or the local node id, so a following RGET of *)
(* k returns $V <len> <value> <timestamp_ms> <node_id> with those same     *)
(* fields; an accepted RDEL makes a following RGET return -NOT_FOUND.      *)
(***************************************************************************)
C20_Stored(t) ==
    LET cmd == workers[t].cmd
        v   == Version(cmd.timestamp_ms, cmd.node_id)
    IN  (workers[t].pc = "apply" /\ workers'[t].pc = "count" /\ workers'[t].accepted)
        => node'.data[cmd.key] = IF cmd.type = "RSET"
                                 THEN ValueEntry(FALSE, cmd.value, v)
                                 ELSE ValueEntry(TRUE, "", v)

FollowsAccepted(w, type) ==
    /\ w.pc = "idle" /\ w.cmd.type = "RGET"
    /\ w.prev.cmd.type = type /\ w.prev.cmd.key = w.cmd.key /\ w.prev.accepted

C20_Answer(w) ==
    /\ FollowsAccepted(w, "RSET") =>
          w.resp = <<"$V", Len(w.prev.cmd.value), w.prev.cmd.value,
                     w.prev.cmd.timestamp_ms, w.prev.cmd.node_id>>
    /\ FollowsAccepted(w, "RDEL") => w.resp = <<"-NOT_FOUND">>

C20_Step == \A t \in DOMAIN workers : C20_Stored(t) /\ C20_Answer(workers'[t])

C20_CommandVersionStored == [][C20_Step]_vars

\* An RGET has answered right after an accepted RSET of the same key that
\* replaced an entry written with another node id.
C20_Witness ==
    \E t \in DOMAIN workers :
        /\ FollowsAccepted(workers[t], "RSET")
        /\ workers[t].resp[1] = "$V"
        /\ Len(node.wal.records) >= 2
        /\ workers[t].prev.cmd.node_id # this_node_id

(***************************************************************************)
(* C21: handle_command on a FWD frame with hops_remaining = 0 returns      *)
(* -ERR ROUTING_LOOP, and on a FWD frame whose inner line does not parse   *)
(* returns -ERR MALFORMED_FWD; in both cases the store, the WAL and the    *)
(* hint store are unchanged.  Otherwise the inner command is executed on   *)
(* the local store only and is never forwarded or fanned out to other      *)
(* replicas.                                                               *)
(***************************************************************************)
LastForward == forwards[Len(forwards)]

InnerParses(f) == try_parse(f.inner_line \o <<NL>>).status = "OK"

C21_Step ==
    Len(forwards') = Len(forwards) + 1 =>
        LET f == forwards'[Len(forwards')]
            c == f.coord
            inner == LocalCommand(try_parse(f.inner_line \o <<NL>>).command)
        IN  /\ f.hops_remaining = 0 =>
                /\ f.resp = <<"-ERR", "ROUTING_LOOP">>
                /\ UNCHANGED <<store, wal, hints>>
            /\ (f.hops_remaining # 0 /\ ~InnerParses(f)) =>
                /\ f.resp = <<"-ERR", "MALFORMED_FWD">>
                /\ UNCHANGED <<store, wal, hints>>
            /\ (f.hops_remaining # 0 /\ InnerParses(f)) =>
                /\ f.resp = execute_local(NodeState(c), inner, f.now, c).resp
                /\ store'[c] = execute_local(NodeState(c), inner, f.now, c).state.data
                /\ inner.type = "SET" => store'[c][inner.key].present
                /\ \A n \in Nodes \ {c} : store'[n] = store[n] /\ wal'[n] = wal[n]
                /\ UNCHANGED <<hints, writes, reads, repairs, replays, delivered, hint_log>>

C21_ForwardHandledLocally == [][C21_Step]_vars

\* A frame with no hops left has been refused by a node that holds a value
\* from an earlier forwarded SET.
C21_Witness ==
    /\ Len(forwards) = 2
    /\ LastForward.hops_remaining = 0
    /\ LastForward.resp = <<"-ERR", "ROUTING_LOOP">>
    /\ InnerParses(LastForward)
    /\ store[LastForward.coord]["k"].present
    /\ Cardinality(DOMAIN ring.nodes_) = 3

(***************************************************************************)
(* C22: for every store state, Snapshot::save followed by Snapshot::load   *)
(* of the written file returns the seq_no given to save and exactly the    *)
(* set of entries all_entries() returned at save time, each with the same  *)
(* key, tombstone flag, value, timestamp_ms and node_id.                   *)
(***************************************************************************)
LoadedSet == {LoadedEntry(snap_loaded.result.entries[i]) :
                 i \in 1..Len(snap_loaded.result.entries)}

C22_SaveLoadRoundTrip ==
    (snap_loaded.done /\ snap_saved.intact) =>
        /\ snap_loaded.result.present
        /\ snap_loaded.result.seq_no = snap_saved.seq_no
        /\ Len(snap_loaded.result.entries) = Cardinality(snap_saved.entries)
        /\ LoadedSet = snap_saved.entries

\* A file with a value and a tombstone, saved at a two-byte seq_no, was loaded.
C22_Witness ==
    /\ snap_loaded.done /\ snap_saved.intact
    /\ snap_saved.seq_no = 300
    /\ Cardinality(snap_saved.entries) = 2
    /\ \E e \in LoadedSet : e[2].is_tombstone
    /\ \E e \in LoadedSet : ~e[2].is_tombstone /\ e[2].value = "b"

(***************************************************************************)
(* C23: Snapshot::load returns not-present for a file with wrong magic     *)
(* bytes and for every proper prefix of a valid snapshot file (truncation  *)
(* inside the header or inside any entry); it never returns snapshot data  *)
(* built from a truncated file.                                            *)
(***************************************************************************)
C23_DamagedNotLoaded ==
    (snap_loaded.done /\ ~snap_saved.intact) => ~snap_loaded.result.present

\* The part of C23 that holds: wrong magic in a file of full length, and a
\* cut behind the header of a file with entries.
C23_EntryCutNotLoaded ==
    (/\ snap_loaded.done /\ ~snap_saved.intact
     /\ Len(snap_file) >= 16 \/ Len(snap_file) = Len(snap_saved.bytes))
        => ~snap_loaded.result.present

(***************************************************************************)
(* C24: after any sequence of store calls on a HintStore with a backing    *)
(* directory, a new HintStore on that directory holds after load(), for    *)
(* every target, the same hints in the same order with the same fields;    *)
(* after clear_hints_for(t) the new store's load() recovers no hint for t. *)
(***************************************************************************)
C24_Step ==
    (hint_history'.op = "load" /\ hint_history.op # "load") =>
        /\ \A t \in Nodes :
              HintStore_get_hints_for(hint_mem', t) = HintStore_get_hints_for(hint_mem, t)
        /\ hint_history.op = "clear" =>
              HintStore_get_hints_for(hint_mem', hint_history.target) = <<>>

C24_HintsRecovered == [][C24_Step]_vars

\* A reopened store holds two hints for one target in the order stored, a
\* delete among them, after the other target was cleared.
C24_Witness ==
    /\ hint_history.op = "load"
    /\ \E t \in {2, 3} :
          /\ Len(HintStore_get_hints_for(hint_mem, t)) = 2
          /\ hint_mem[t][1] # hint_mem[t][2]
          /\ hint_mem[t][2].is_del
          /\ hint_mem[t][1].version.timestamp_ms = 300
          /\ hint_mem[t] = hint_history.before[t]

(***************************************************************************)
(* C25: for every well-formed command with any key and value bytes,        *)
(* try_parse on the command's frame followed by a newline returns OK with  *)
(* the same type and fields and bytes_consumed equal to the length of the  *)
(* frame with its newline.                                                 *)
(***************************************************************************)
OneFrameRead ==
    /\ Len(wire_sent) = 1 /\ wire_sent[1].formed
    /\ wire_bytes.reads = 1 /\ wire_bytes.delivered = Len(wire_sent[1].bytes)

C25_ParseRoundTrip ==
    OneFrameRead =>
        /\ Len(wire_parsed.calls) >= 1
        /\ wire_parsed.calls[1].buf = wire_sent[1].bytes
        /\ wire_parsed.calls[1].result =
              ParseResult("OK", wire_sent[1].cmd, Len(wire_sent[1].bytes), "")

HasNewline(cmd) ==
    \/ \E i \in 1..Len(cmd.key) : cmd.key[i] = NL
    \/ \E i \in 1..Len(cmd.value) : cmd.value[i] = NL

\* The part of C25 that holds: keys and values without the newline byte.
C25_NewlineFreeRoundTrip ==
    (OneFrameRead /\ ~HasNewline(wire_sent[1].cmd)) =>
        /\ Len(wire_parsed.calls) = 1
        /\ wire_parsed.calls[1].result =
              ParseResult("OK", wire_sent[1].cmd, Len(wire_sent[1].bytes), "")

(***************************************************************************)
(* C26: try_parse on a buffer without a newline returns INCOMPLETE with    *)
(* bytes_consumed = 0; on any other buffer it consumes exactly the bytes   *)
(* up to and including the first newline, for OK and for ERROR.  So the    *)
(* results of parsing a stream frame by frame are the same however the     *)
(* stream was split into reads.                                            *)
(***************************************************************************)
FirstNewline(buf) ==
    IF \E i \in 1..Len(buf) : buf[i] = NL
    THEN CHOOSE i \in 1..Len(buf) : buf[i] = NL /\ \A j \in 1..(i - 1) : buf[j] # NL
    ELSE 0

RECURSIVE FramesOf(_)
\* The frames of a stream: cut behind every newline; a tail without one is no frame.
FramesOf(stream) ==
    IF FirstNewline(stream) = 0 THEN <<>>
    ELSE <<SubSeq(stream, 1, FirstNewline(stream))>>
         \o FramesOf(SubSeq(stream, FirstNewline(stream) + 1, Len(stream)))

Delivered == SubSeq(wire_bytes.stream, 1, wire_bytes.delivered)

C26_OneFramePerCall ==
    /\ \A i \in 1..Len(wire_parsed.calls) :
          LET call == wire_parsed.calls[i] IN
          IF FirstNewline(call.buf) = 0
          THEN call.result.status = "INCOMPLETE" /\ call.result.bytes_consumed = 0
          ELSE /\ call.result.status \in {"OK", "ERROR"}
               /\ call.result.bytes_consumed = FirstNewline(call.buf)
    /\ Len(wire_parsed.results) = Len(FramesOf(Delivered))
    /\ \A i \in 1..Len(wire_parsed.results) :
          wire_parsed.results[i].bytes_consumed = Len(FramesOf(Delivered)[i])
    /\ wire_parsed.results = process_commands(Delivered, <<>>, <<>>).results
    /\ read_buf = process_commands(Delivered, <<>>, <<>>).read_buf

\* Two frames arrived in two or more reads, the last of which completed the
\* second frame only; the first was answered with an error.
C26_Witness ==
    /\ wire_bytes.reads = 2
    /\ wire_bytes.delivered = Len(wire_bytes.stream)
    /\ Len(wire_parsed.results) = 2
    /\ wire_parsed.results[1].status = "ERROR"
    /\ wire_parsed.results[2].status = "OK"
    /\ wire_parsed.results[2].command.type = "RSET"
    /\ Len(wire_parsed.calls) = 1

(***************************************************************************)
(* C27: for every value (empty and with spaces included), timestamp_ms and *)
(* node_id, parse_versioned_response(format_versioned_value(value,         *)
(* timestamp_ms, node_id)) returns found = true with the same value,       *)
(* timestamp_ms and node_id; on -NOT_FOUND and on every response that does *)
(* not start with "$V " it returns found = false.                          *)
(***************************************************************************)
StartsWithV(resp) ==
    Len(resp) >= 3 /\ resp[1] = DOLLAR /\ resp[2] = LETTER_V /\ resp[3] = SP

C27_VersionedRoundTrip ==
    wire_parsed.parsed =>
        /\ wire_sent.kind = "value" =>
              /\ wire_parsed.found
              /\ wire_parsed.value = wire_sent.value
              /\ wire_parsed.timestamp_ms = wire_sent.timestamp_ms
              /\ wire_parsed.node_id = wire_sent.node_id
        /\ (wire_bytes[1] = NotFoundBytes \/ ~StartsWithV(wire_bytes[1])) =>
              ~wire_parsed.found

\* A value with spaces came back with a timestamp of several digits.
C27_Witness ==
    /\ wire_parsed.parsed /\ wire_parsed.found
    /\ wire_parsed.value = <<SP, DIGIT_0 + 1, SP>>
    /\ wire_parsed.timestamp_ms = 1234567
    /\ wire_parsed.node_id = 42

(***************************************************************************)
(* C28: get_replica_nodes(key, count) returns min(count, number of         *)
(* physical nodes on the ring) nodes with pairwise distinct node_ids, in   *)
(* clockwise order with get_node(key) first, and the empty list on an      *)
(* empty ring; a repeated call on the unchanged ring returns the same.     *)
(***************************************************************************)
RingOwners == {ring.ring_[p].node_id : p \in DOMAIN ring.ring_}

\* How far clockwise a point lies behind a hash; a point at the hash is last.
Clockwise(hash, p) == (p - hash - 1 + RingSize) % RingSize

FirstPoint(hash, node_id) ==
    SetMin({Clockwise(hash, p) : p \in {q \in DOMAIN ring.ring_ :
                                            ring.ring_[q].node_id = node_id}})

IdleFds(pools) == UNION {{pools[a][i] : i \in 1..Len(pools[a])} : a \in DOMAIN pools}

C29_PoolCap ==
    LET before == IdleOf(pool_call.before, pool_call.address)
        now    == IdleOf(pools_, pool_call.address)
    IN  /\ \A a \in DOMAIN pools_ : Len(pools_[a]) <= max_per_peer_
        /\ pool_call.op = "release" =>
              IF Len(before) >= max_per_peer_
              THEN now = before /\ pool_call.fd \notin pool_fds
              ELSE now = Append(before, pool_call.fd) /\ pool_call.fd \in pool_fds
        /\ pool_call.op = "acquire" =>
              IF before # <<>>
              THEN /\ pool_call.present
                   /\ pool_call.fd = before[Len(before)]
                   /\ now = SubSeq(before, 1, Len(before) - 1)
                   /\ pool_fds = pool_call.open_before
              ELSE /\ pools_ = pool_call.before
                   /\ IF pool_call.present
                      THEN /\ pool_call.fd \notin pool_call.open_before
                           /\ pool_fds = pool_call.open_before \cup {pool_call.fd}
                      ELSE pool_fds = pool_call.open_before
        /\ pool_call.op = "close_all" =>
              /\ IdleFds(pools_) = {}
              /\ pool_fds = pool_call.open_before \ IdleFds(pool_call.before)

\* A connection was released to a pool that already held max_per_peer idle
\* connections of its address.
C29_Witness ==
    /\ pool_call.op = "release"
    /\ Len(IdleOf(pool_call.before, pool_call.address)) = max_per_peer_
    /\ pool_call.fd \notin pool_fds
    /\ pool_held # {}

Submitted == DOMAIN pool_history.submits

Accepted == {t \in Submitted : pool_history.submits[t].returned}

C31_Safe ==
    /\ \A t \in 1..MaxTasks : pool_history.runs[t] <= 1
    /\ \A t \in 1..MaxTasks : t \notin Accepted => pool_history.runs[t] = 0
    /\ \A t \in Submitted : pool_history.submits[t].stopped => t \notin Accepted
    /\ pool_history.shutdown = "returned" => \A t \in Accepted : pool_history.runs[t] = 1

C32_LogRecoversStore ==
    (booted.up /\ node.snaps = <<>>) =>
        \A k \in StoreKeys : booted.data[k] = node.data[k]

(***************************************************************************)
(* C33: with a WAL configured, every mutation of the local store made      *)
(* through the coordinator (a client or replicated SET or DEL, the inner   *)
(* command of a FWD, a read repair) is preceded by the append of a WAL     *)
(* record for the same key and operation, so that every key the store      *)
(* holds has its record in the log the replay starts from.                 *)
(***************************************************************************)
C33_StoreCoveredByLog ==
    \A n \in Nodes, k \in ClusterKeys :
        (wal[n].open /\ store[n][k].present) =>
            \E i \in 1..Len(wal[n].records) :
                /\ wal[n].records[i].key = k
                /\ wal[n].records[i].op_type = (IF store[n][k].is_tombstone THEN "DEL" ELSE "SET")
                /\ wal[n].records[i].timestamp_ms = store[n][k].version.timestamp_ms

(***************************************************************************)
(* C34: under any interleaving of concurrent local write attempts the      *)
(* snapshot ops counter never exceeds snapshot_interval, and exactly one   *)
(* snapshot is started for every snapshot_interval attempts: when no call  *)
(* is in progress, the snapshots are the attempts divided by the interval  *)
(* and the counter holds the remainder.                                    *)
(***************************************************************************)
C34_OneSnapshotPerInterval ==
    /\ node.ops <= snapshot_interval_
    /\ (\A t \in DOMAIN workers : workers[t].pc = "idle") =>
           /\ Len(node.snaps) = Len(logged) \div snapshot_interval_
           /\ node.ops = Len(logged) % snapshot_interval_

(***************************************************************************)
(* C35: applying the same RSET or RDEL (same key, value and version) to a  *)
(* replica again leaves the replica's store as it is, so that re-sending a *)
(* whole hint batch after a replay of which some sends failed changes the  *)
(* store only by the hints the replica had not executed before.            *)
(***************************************************************************)
\* The step sends hint i, and the replica has executed an equal hint before.
Redelivered(i) ==
    /\ hint_resend.next = i
    /\ hint_resend'.next = i + 1
    /\ \E j \in hint_resend.executed : hint_resend.pending[j] = hint_resend.pending[i]

C35_Step == \A i \in 1..MaxBatch : Redelivered(i) => engine' = engine

C35_ResendIdempotent == [][C35_Step]_vars

\* A later replay has executed a hint again, after a newer hint of the batch
\* for the same key had been executed.
C35_Witness ==
    /\ hint_resend.replay > 1
    /\ \E i \in hint_resend.again, j \in hint_resend.executed :
           /\ hint_resend.pending[i].key = hint_resend.pending[j].key
           /\ is_newer(hint_resend.pending[j].version, hint_resend.pending[i].version)
           /\ engine[hint_resend.pending[i].key].version = hint_resend.pending[j].version

(***************************************************************************)
(* C36: read repair never lowers the version of any key on any replica,    *)
(* and never makes a key readable again on a replica that holds a          *)
(* tombstone newer than the repaired version: a step of the repair thread  *)
(* leaves every entry present with a version at least as new, and leaves   *)
(* such a tombstone as it is.                                              *)
(***************************************************************************)
C36_Step ==
    \A p \in 1..Len(repairs) :
        repairs'[p].next = repairs[p].next + 1 =>
            \A n \in Nodes, k \in ClusterKeys :
                /\ store[n][k].present =>
                       /\ store'[n][k].present
                       /\ VersionLeq(store[n][k].version, store'[n][k].version)
                /\ (/\ store[n][k].present
                    /\ store[n][k].is_tombstone
                    /\ ~VersionLeq(store[n][k].version, repairs[p].latest_ver))
                       => store'[n][k] = store[n][k]

C36_RepairNeverLowers == [][C36_Step]_vars

\* A repair has been executed on a replica that holds a tombstone newer than
\* the repaired version.
C36_Witness ==
    \E p \in 1..Len(repairs) : \E i \in 1..Len(repairs[p].stale) :
        LET job == repairs[p]
            n   == job.stale[i].node_id
        IN  /\ i < job.next
            /\ n \notin job.unreached
            /\ store[n][job.key].present
            /\ store[n][job.key].is_tombstone
            /\ ~VersionLeq(store[n][job.key].version, job.latest_ver)

(***************************************************************************)
(* C37: for r less than or equal to n, get_replica_nodes(key, r) is a      *)
(* prefix of get_replica_nodes(key, n) on the same ring; so with R less    *)
(* than or equal to N the replicas a quorum read queries are among the     *)
(* replicas a quorum write of the same key targets.                        *)
(***************************************************************************)
C37_ReplicaPrefix ==
    ring_call.called =>
        \A r \in 0..ring_call.count :
            LET fewer == get_replica_nodes(ring, ring_call.hash, r) IN
            /\ Len(fewer) <= Len(ring_call.result)
            /\ fewer = SubSeq(ring_call.result, 1, Len(fewer))
            /\ Range(fewer) \subseteq Range(ring_call.result)

\* Three replicas were asked of a ring on which three nodes own points.
C37_Witness ==
    /\ ring_call.called
    /\ ring_call.count = 3
    /\ Len(ring_call.result) = 3
    /\ Len(get_replica_nodes(ring, ring_call.hash, 2)) = 2

(***************************************************************************)
(* C38: every connection the coordinator returns to the pool has had one   *)
(* request sent and one complete newline-terminated response read on it    *)
(* since it was acquired; after a send failure, a receive failure or a     *)
(* receive timeout the connection is closed and not returned to the pool;  *)
(* so an idle connection of the pool has no bytes of an earlier exchange   *)
(* unread or still to come.                                                *)
(***************************************************************************)
C38_ReleasedAfterFullExchange ==
    /\ \A i \in 1..Len(exchange.log) :
          LET call == exchange.log[i] IN
          /\ call.released =>
                /\ call.outcome = "ok"
                /\ call.response # <<>>
                /\ call.response[Len(call.response)] = NL
          /\ call.outcome # "ok" => ~call.released
    /\ \A i \in 1..Len(IdleOf(pools_, ExchangePeer)) :
          LET fd == IdleOf(pools_, ExchangePeer)[i] IN
          /\ exchange.channel[fd].inbound = <<>>
          /\ exchange.channel[fd].pending = <<>>

(***************************************************************************)
(* C39: with a hint directory configured, whenever no HintStore call is in *)
(* progress the hints held in memory for a target are exactly the records  *)
(* of that target's hint file, each record complete, under any             *)
(* interleaving of concurrent store calls with each other and with         *)
(* clear_hints_for.                                                        *)
(***************************************************************************)
RECURSIVE RecordsOf(_)
RecordsOf(pending) ==
    IF pending = <<>> THEN <<>> ELSE hint_record(Head(pending)) \o RecordsOf(Tail(pending))

C39_MemoryMatchesFile ==
    (\A t \in HintThreads : hint_calls.threads[t].pc = "idle") =>
        \A target \in {2, 3} :
            FileOf(hint_dir, target) = RecordsOf(HintStore_get_hints_for(hint_mem, target))

(***************************************************************************)
(* C40: the responses on one client connection are written in the order in *)
(* which their frames were received, also when several frames are          *)
(* pipelined in one read, when a malformed frame lies between well-formed  *)
(* ones, and when several workers execute the commands in parallel.        *)
(***************************************************************************)
C40_ResponsesInFrameOrder ==
    \A i, j \in 1..Len(write_buf) : i < j => write_buf[i].frame < write_buf[j].frame
====
